---- MODULE Spec2Model ----
(***************************************************************************)
(* Neural Cortex: the multi-expert query orchestrator (src/lib/agents.ts,  *)
(* src/lib/search.ts, lib/huggingface.ts).  Text is modelled as TLA+       *)
(* strings, scanned character by character the way the regular            *)
(* expressions of the source scan it.                                      *)
(***************************************************************************)
EXTENDS Integers, Sequences, FiniteSets, TLC

VARIABLES
    \* lib/huggingface.ts
    hfConfigured,     \* isHuggingFaceConfigured(): HF_API_KEY is set
    \* runAgents
    message,          \* the utterance
    documents,        \* the documents handed to the knowledge expert
    pc,               \* "idle" | "classify" | "classified" | "start" | "awaiting" | "done"
    intents,          \* classifyIntent(message)
    knowledgeResult,  \* result of runKnowledgeExpert
    called,           \* the experts that have been called for this query
    searchTask,       \* promise of runSearchExpert
    youtubeTask,      \* promise of runYouTubeExpert
    agentContext,     \* the AgentContext returned
    \* youtubeSearch
    videoPc,          \* "idle" | "call" | "returned"
    videoFetch,       \* what fetch answers to the site:youtube.com query
    videoResults,     \* the YouTubeResult[] returned
    \* consensusSummarize
    sumPc,            \* "idle" | "start" | "awaiting" | "merging" | "done"
    sumText,          \* the text to summarize
    nvidiaSummary,    \* promise of generateSummary(text)
    hfSummaryResult,  \* promise of hfSummarize(text), or of Promise.resolve('')
    mergeCalls,       \* number of merge calls issued to nvidiaChat
    sumOutput,        \* the summary returned
    \* validateResponse
    valPc,            \* "idle" | "start" | "chat" | "done"
    valResponse,      \* the answer to validate
    valModel,         \* hfChat: index of currentModel in HF_CHAT_MODELS
    lastError,        \* hfChat: lastError
    validation,       \* the reply of hfChat, "" before
    valThrew,         \* hfChat threw and validateResponse caught it
    valOutput,        \* the answer returned
    \* the knowledge graph in the database
    knowledgeNode,    \* the KnowledgeNode rows of the user, in order of creation
    document,         \* the Document rows of the user
    batches,          \* number of ingestions and rebuilds so far
    lastBatch,        \* the last ingestion or rebuild, and the rows before it
    \* fetchGraphData (studio/page.tsx)
    studioPc,         \* "idle" | "fetch" | "set" | "failed" | "selected"
    data,             \* what /api/brain/graph answered: nodes and links
    graphData,        \* the nodes and links handed to the renderer
    selectedNode,     \* the id of the node that was clicked, 0 for null
    \* two handlers of the knowledge graph running at once
    running,          \* per handler: its document, its position and what it has read
    \* hfSummarize and its hfFetchWithRetry (lib/huggingface.ts)
    retryPc,          \* "idle" | "fetch" | "settled" | "returned" | "threw" | "done"
    retries,          \* the parameter retries
    attempt,          \* the loop variable
    fetches,          \* number of calls of fetch so far
    waits,            \* the setTimeout waits so far: cause, what the server suggested, ms
    fetched,          \* what the last fetch settled to (res or err)
    hfSummary,        \* what hfSummarize returned or threw
    \* the password reset (api/auth/verify-otp, api/auth/reset-password)
    otpCode,          \* the OtpCode rows of the user, in order of creation
    requests,         \* the requests received: what was sent, position, record found, status
    password          \* number of times user.password was written

agentVars == <<message, documents, pc, intents, knowledgeResult, called,
               searchTask, youtubeTask, agentContext>>
videoVars == <<videoPc, videoFetch, videoResults>>
sumVars == <<sumPc, sumText, nvidiaSummary, hfSummaryResult, mergeCalls, sumOutput>>
valVars == <<valPc, valResponse, valModel, lastError, validation, valThrew, valOutput>>
envVars == <<hfConfigured>>
storeVars == <<knowledgeNode, document, batches, lastBatch>>
studioVars == <<studioPc, data, graphData, selectedNode>>
raceVars == <<running>>
retryVars == <<retryPc, retries, attempt, fetches, waits, fetched, hfSummary>>
otpVars == <<otpCode, requests, password>>
otherVars == <<raceVars, retryVars, otpVars>>
vars == <<envVars, agentVars, videoVars, sumVars, valVars, envVars, storeVars, studioVars,
          otherVars>>

(***************************************************************************)
(* Bounds of the model.                                                    *)
(***************************************************************************)
\* an utterance is the concatenation of at most MaxFrags fragments
MaxFrags == 2
\* a page answered to youtubeSearch holds at most MaxAnchors anchors
MaxAnchors == 7
\* at most MaxBatches ingestions, re-processings and rebuilds are followed
MaxBatches == 2
\* hfFetchWithRetry is called with retries up to MaxRetries
MaxRetries == 3
\* at most MaxRequests requests of the password reset are followed
MaxRequests == 2
\* the graph the run starts from is empty, or it has seen one document
\* processed Reprocessed times
Reprocessed == 19

(***************************************************************************)
(* Strings.                                                                *)
(***************************************************************************)
Min(a, b) == IF a < b THEN a ELSE b

Char(s, i) == SubSeq(s, i, i)

UpperCase == "ABCDEFGHIJKLMNOPQRSTUVWXYZ"
LowerCase == "abcdefghijklmnopqrstuvwxyz"
Digits == "0123456789"

CharsOf(s) == {Char(s, i) : i \in 1..Len(s)}

\* String.prototype.toLowerCase, on the ASCII range
LowerChar(c) ==
    IF c \in CharsOf(UpperCase)
    THEN Char(LowerCase, CHOOSE i \in 1..Len(UpperCase) : Char(UpperCase, i) = c)
    ELSE c

RECURSIVE toLowerCase(_)
toLowerCase(s) ==
    IF s = "" THEN "" ELSE LowerChar(Char(s, 1)) \o toLowerCase(SubSeq(s, 2, Len(s)))

\* String.prototype.includes
includes(s, p) ==
    \E i \in 1..(Len(s) - Len(p) + 1) : SubSeq(s, i, i + Len(p) - 1) = p

\* String.prototype.startsWith
startsWith(s, p) == Len(p) <= Len(s) /\ SubSeq(s, 1, Len(p)) = p

\* String.prototype.slice(0, n)
slice0(s, n) == SubSeq(s, 1, Min(n, Len(s)))

\* the regular-expression classes \w, \s and the line terminators that . skips
WordChars == CharsOf(UpperCase) \cup CharsOf(LowerCase) \cup CharsOf(Digits) \cup {"_"}
SpaceChars == {" ", "\t", "\n", "\r", "\f"}
LineTerminators == {"\n", "\r"}

\* the assertion \b before position i (1 .. Len(s)+1) of s
WordBoundary(s, i) ==
    (i > 1 /\ Char(s, i - 1) \in WordChars) # (i <= Len(s) /\ Char(s, i) \in WordChars)

\* /\b(p)\b/ for a literal p
MatchesWord(s, p) ==
    \E i \in 1..(Len(s) - Len(p) + 1) :
        /\ SubSeq(s, i, i + Len(p) - 1) = p
        /\ WordBoundary(s, i)
        /\ WordBoundary(s, i + Len(p))

\* /\b(pre.+post)\b/ for literals pre and post
MatchesGap(s, pre, post) ==
    \E i \in 1..Len(s) : \E j \in (i + Len(pre) + 1)..(Len(s) - Len(post) + 1) :
        /\ SubSeq(s, i, i + Len(pre) - 1) = pre
        /\ WordBoundary(s, i)
        /\ \A k \in (i + Len(pre))..(j - 1) : Char(s, k) \notin LineTerminators
        /\ SubSeq(s, j, j + Len(post) - 1) = post
        /\ WordBoundary(s, j + Len(post))

\* /\?([\s]*$)/
MatchesTrailingQuestion(s) ==
    \E i \in 1..Len(s) :
        /\ Char(s, i) = "?"
        /\ \A k \in (i + 1)..Len(s) : Char(s, k) \in SpaceChars

(***************************************************************************)
(* Intent classifier (agents.ts).  The patterns carry the i flag: they are *)
(* matched against the lower-cased utterance.                              *)
(***************************************************************************)
SEARCH_PATTERNS(m) ==
    \E lower \in {toLowerCase(m)} :
        \/ \E p \in {"search", "find", "look up", "google", "what is", "who is",
                     "latest", "current", "news", "when did", "where is", "how to"} :
               MatchesWord(lower, p)
        \/ \E p \in {"tell me about", "explain", "define", "meaning of", "definition"} :
               MatchesWord(lower, p)
        \/ MatchesTrailingQuestion(m)

YOUTUBE_PATTERNS(m) ==
    \E lower \in {toLowerCase(m)} :
        \/ \E p \in {"youtube", "video", "watch", "tutorial", "lecture", "course",
                     "playlist"} :
               MatchesWord(lower, p)
        \/ \E p \in {"show me a video", "find a video", "video about", "video on",
                     "video for"} :
               MatchesWord(lower, p)
        \/ MatchesGap(lower, "how to ", " video")
        \/ MatchesGap(lower, "learn ", " video")

SUMMARIZE_PATTERNS(m) ==
    \E lower \in {toLowerCase(m)} :
        \/ \E p \in {"summarize", "summary", "brief", "overview", "recap", "tldr",
                     "tl;dr"} :
               MatchesWord(lower, p)
        \/ MatchesGap(lower, "what does ", " say")
        \/ \E p \in {"key points", "main ideas", "highlight"} :
               MatchesWord(lower, p)

KNOWLEDGE_PATTERNS(m) ==
    \E lower \in {toLowerCase(m)} :
        \/ \E p \in {"my document", "my notes", "my file", "uploaded", "in my vault",
                     "knowledge base"} :
               MatchesWord(lower, p)
        \/ MatchesGap(lower, "my ", " says")
        \/ \E p \in {"from my", "according to my", "in my", "remember when"} :
               MatchesWord(lower, p)

\* Array.prototype.includes
listIncludes(list, x) == \E i \in 1..Len(list) : list[i] = x

\* new Set(list), in insertion order: the first occurrence of each element
RECURSIVE firstOccurrences(_)
firstOccurrences(list) ==
    IF list = <<>> THEN <<>>
    ELSE LET init == firstOccurrences(SubSeq(list, 1, Len(list) - 1))
             last == list[Len(list)]
         IN  IF listIncludes(init, last) THEN init ELSE Append(init, last)

\* Array.from(new Set(list)); list is evaluated once
Dedup(list) == CHOOSE set \in {firstOccurrences(l) : l \in {list}} : TRUE

\* if (cond) intents.push(tag)
pushIf(list, cond, tag) == IF cond THEN Append(list, tag) ELSE list

\* agents.ts 96-111: knowledge, then the cue families in the order of the code
cueIntents(m) ==
    pushIf(pushIf(pushIf(<<"knowledge">>, YOUTUBE_PATTERNS(m), "youtube"),
                  SEARCH_PATTERNS(m), "search"),
           SUMMARIZE_PATTERNS(m), "summarize")

\* agents.ts 113-120
safetyNet_Never(list, m) == list
safetyNet(list, m) ==
    pushIf(list,
           Len(list) = 1 /\ ~KNOWLEDGE_PATTERNS(m) /\ includes(toLowerCase(m), "?"),
           "search")

classifyIntent_KnowledgeOnCue(m) ==
    Dedup(pushIf(pushIf(pushIf(pushIf(<<>>, KNOWLEDGE_PATTERNS(m), "knowledge"),
                               YOUTUBE_PATTERNS(m), "youtube"),
                        SEARCH_PATTERNS(m), "search"),
                 SUMMARIZE_PATTERNS(m), "summarize"))

classifyIntent_FirstCueOnly(m) ==
    Dedup(IF YOUTUBE_PATTERNS(m) THEN <<"knowledge", "youtube">>
          ELSE IF SEARCH_PATTERNS(m) THEN <<"knowledge", "search">>
          ELSE IF SUMMARIZE_PATTERNS(m) THEN <<"knowledge", "summarize">>
          ELSE safetyNet(<<"knowledge">>, m))

classifyIntent(m) == Dedup(safetyNet(cueIntents(m), m))

(***************************************************************************)
(* Utterances.                                                             *)
(***************************************************************************)
Fragments ==
    {"?", " ", "hello", "s", "find a video", "Video", " summary", "my notes",
     "what does it say", "my x says", "how to"}

RECURSIVE Join(_)
Join(fs) == IF fs = <<>> THEN "" ELSE Head(fs) \o Join(Tail(fs))

Messages == {Join(fs) : fs \in UNION {[1..n -> Fragments] : n \in 0..MaxFrags}}

\* the utterances handed to runAgents
Queries ==
    {"", "hello", "?hello", "hello?", "my notes?", "my notes ?hello",
     "find a video", "Video summary", "find a video summary", " summary",
     "what does it say", "how to", "how to hello?", "watch the Video",
     "what is a summary", "my x says hello"}

(***************************************************************************)
(* More of String.prototype and of the regular expressions of search.ts.   *)
(***************************************************************************)
\* String.prototype.indexOf, 1-based; 0 when p does not occur in s
indexOf(s, p) ==
    IF includes(s, p)
    THEN CHOOSE i \in 1..(Len(s) - Len(p) + 1) :
             /\ SubSeq(s, i, i + Len(p) - 1) = p
             /\ \A k \in 1..(i - 1) : SubSeq(s, k, k + Len(p) - 1) # p
    ELSE 0

\* String.prototype.replace(/from/g, to) for a literal from
RECURSIVE replaceAll(_, _, _)
replaceAll(s, from, to) ==
    LET i == indexOf(s, from)
    IN  IF i = 0 THEN s
        ELSE SubSeq(s, 1, i - 1) \o to
                 \o replaceAll(SubSeq(s, i + Len(from), Len(s)), from, to)

\* String.prototype.replace(/<[^>]*>/g, '')
RECURSIVE stripTags(_)
stripTags(s) ==
    LET i == indexOf(s, "<")
        j == IF i = 0 THEN 0 ELSE indexOf(SubSeq(s, i + 1, Len(s)), ">")
    IN  IF i = 0 \/ j = 0 THEN s
        ELSE SubSeq(s, 1, i - 1) \o stripTags(SubSeq(s, i + j + 1, Len(s)))

\* String.prototype.replace(/\s+/g, ' ')
RECURSIVE collapseSpace(_)
collapseSpace(s) ==
    IF s = "" THEN ""
    ELSE IF Char(s, 1) \in SpaceChars
         THEN IF Len(s) > 1 /\ Char(s, 2) \in SpaceChars
              THEN collapseSpace(SubSeq(s, 2, Len(s)))
              ELSE " " \o collapseSpace(SubSeq(s, 2, Len(s)))
         ELSE Char(s, 1) \o collapseSpace(SubSeq(s, 2, Len(s)))

\* String.prototype.trim
RECURSIVE trim(_)
trim(s) ==
    IF s = "" THEN ""
    ELSE IF Char(s, 1) \in SpaceChars THEN trim(SubSeq(s, 2, Len(s)))
    ELSE IF Char(s, Len(s)) \in SpaceChars THEN trim(SubSeq(s, 1, Len(s) - 1))
    ELSE s

stripHtml(html) ==
    LET s1 == stripTags(html)
        s2 == replaceAll(s1, "&amp;", "&")
        s3 == replaceAll(s2, "&lt;", "<")
        s4 == replaceAll(s3, "&gt;", ">")
        s5 == replaceAll(s4, "&quot;", "\"")
        s6 == replaceAll(s5, "&#x27;", "'")
        s7 == replaceAll(s6, "&nbsp;", " ")
    IN  trim(collapseSpace(s7))

\* decodeURIComponent: the escapes of the reserved characters of a URL; any
\* other % sequence is malformed and throws URIError (ok = FALSE)
Escapes == {<<"%3A", ":">>, <<"%2F", "/">>, <<"%3F", "?">>, <<"%3D", "=">>,
            <<"%26", "&">>, <<"%25", "%">>}
URIError == [ok |-> FALSE, value |-> ""]
Returns(v) == [ok |-> TRUE, value |-> v]

RECURSIVE decodeURIComponent(_)
decodeURIComponent(s) ==
    IF s = "" THEN Returns("")
    ELSE IF Char(s, 1) # "%"
         THEN LET rest == decodeURIComponent(SubSeq(s, 2, Len(s)))
              IN  IF rest.ok THEN Returns(Char(s, 1) \o rest.value) ELSE URIError
    ELSE IF \E e \in Escapes : startsWith(s, e[1])
         THEN LET e == CHOOSE e \in Escapes : startsWith(s, e[1])
                  rest == decodeURIComponent(SubSeq(s, 4, Len(s)))
              IN  IF rest.ok THEN Returns(e[2] \o rest.value) ELSE URIError
    ELSE URIError

\* url.split('uddg=')[1]?.split('&')[0] || ''
uddgPart(url) ==
    LET i == indexOf(url, "uddg=")
        after == SubSeq(url, i + 5, Len(url))
        j == indexOf(after, "uddg=")
        part == IF j = 0 THEN after ELSE SubSeq(after, 1, j - 1)
        k == indexOf(part, "&")
    IN  IF k = 0 THEN part ELSE SubSeq(part, 1, k - 1)

(***************************************************************************)
(* search.ts.  The page DuckDuckGo answers with is a sequence of anchors:  *)
(* [result, href, text, snippet], result = TRUE for the result__a anchor   *)
(* of a result block (snippet is the block's result__snippet, "" without), *)
(* FALSE for any other link of the page.                                   *)
(***************************************************************************)
SearchResult(title, url, snippet) == [title |-> title, url |-> url, snippet |-> snippet]

\* if (decoded) url = decoded; ok = FALSE when decodeURIComponent throws
urlOrDecoded(href, decoded) ==
    IF ~decoded.ok THEN URIError
    ELSE IF decoded.value # "" THEN decoded ELSE Returns(href)

\* the URL of a result block: the redirect's uddg parameter, decoded
blockUrl(href) ==
    IF includes(href, "uddg=")
    THEN urlOrDecoded(href, decodeURIComponent(uddgPart(href)))
    ELSE Returns(href)

\* if (title && url && !url.includes('duckduckgo.com')) results.push(...)
pushResult(results, title, url, snippet) ==
    IF title # "" /\ url # "" /\ ~includes(url, "duckduckgo.com")
    THEN Append(results, SearchResult(title, url, snippet))
    ELSE results

\* the loop over the result blocks (search.ts 93-121); ok = FALSE when
\* decodeURIComponent throws
RECURSIVE parseBlocks(_, _, _)
parseBlock(a, url, rest, maxResults, results) ==
    IF ~url.ok THEN [ok |-> FALSE, value |-> <<>>]
    ELSE parseBlocks(rest, maxResults,
             pushResult(results, trim(stripHtml(a.text)), url.value,
                        trim(stripHtml(a.snippet))))

parseBlocks(html, maxResults, results) ==
    IF html = <<>> \/ Len(results) >= maxResults THEN Returns(results)
    ELSE IF ~Head(html).result THEN parseBlocks(Tail(html), maxResults, results)
    ELSE parseBlock(Head(html), blockUrl(Head(html).href), Tail(html), maxResults, results)

\* /href="(https?:\/\/[^"]+)"[^>]*>([^<]+)<\/a>/ matches the anchor
linkRegexMatches(a) ==
    /\ \/ startsWith(a.href, "http://") /\ Len(a.href) > 7
       \/ startsWith(a.href, "https://") /\ Len(a.href) > 8
    /\ ~includes(a.href, "\"")
    /\ a.text # ""
    /\ ~includes(a.text, "<")

\* the fallback loop over every link of the page (search.ts 124-140)
RECURSIVE parseLinks(_, _, _)
parseLinks(html, maxResults, results) ==
    IF html = <<>> \/ Len(results) >= maxResults THEN results
    ELSE LET a == Head(html)
             title == trim(a.text)
             seen == {results[i].url : i \in 1..Len(results)}
         IN  IF /\ linkRegexMatches(a)
                /\ Len(title) > 5
                /\ ~includes(a.href, "duckduckgo.com")
                /\ a.href \notin seen
             THEN parseLinks(Tail(html), maxResults,
                             Append(results, SearchResult(title, a.href, "")))
             ELSE parseLinks(Tail(html), maxResults, results)

\* search.ts 123-142: the links of the page when no block gave a result
withFallback(results, html, maxResults) ==
    IF ~results.ok THEN results
    ELSE IF Len(results.value) = 0 THEN Returns(parseLinks(html, maxResults, <<>>))
    ELSE results

parseDDGResults(html, maxResults) ==
    withFallback(parseBlocks(html, maxResults, <<>>), html, maxResults)

\* What fetch does: it throws (network error, abort after SEARCH_TIMEOUT),
\* answers with a status that is not ok, or answers with a page.
FetchThrows == [kind |-> "throws", html |-> <<>>]
FetchNotOk == [kind |-> "status", html |-> <<>>]
FetchPage(html) == [kind |-> "page", html |-> html]

\* the catch of webSearch: a parse that throws gives []
orEmpty(results) == IF results.ok THEN results.value ELSE <<>>

webSearch(fetch, maxResults) ==
    IF fetch.kind = "throws" THEN <<>>
    ELSE IF fetch.kind = "status" THEN <<>>
    ELSE orEmpty(parseDDGResults(fetch.html, maxResults))

IdChars == WordChars \cup {"-"}

\* /prefix([a-zA-Z0-9_-]{11})/ matches url at position i
idAfter(url, i, prefix) ==
    /\ i + Len(prefix) + 10 <= Len(url)
    /\ SubSeq(url, i, i + Len(prefix) - 1) = prefix
    /\ \A k \in (i + Len(prefix))..(i + Len(prefix) + 10) : Char(url, k) \in IdChars

Least(S) == CHOOSE i \in S : \A k \in S : i <= k

groupAt(url, i, prefixes) ==
    SubSeq(url, i + Len(CHOOSE p \in prefixes : idAfter(url, i, p)),
           i + Len(CHOOSE p \in prefixes : idAfter(url, i, p)) + 10)

\* url.match of an alternation of prefixes followed by the 11 characters:
\* the group of the leftmost match; ok = FALSE for null
leftmost(url, hits, prefixes) ==
    IF hits = {} THEN [ok |-> FALSE, value |-> ""]
    ELSE Returns(groupAt(url, Least(hits), prefixes))

matchId(url, prefixes) ==
    leftmost(url, {i \in 1..Len(url) : \E p \in prefixes : idAfter(url, i, p)}, prefixes)

firstMatch(m1, m2, m3) ==
    IF m1.ok THEN m1
    ELSE IF m2.ok THEN m2
    ELSE IF m3.ok THEN m3
    ELSE [ok |-> FALSE, value |-> ""]

\* ok = FALSE for null
extractYouTubeId(url) ==
    firstMatch(matchId(url, {"youtube.com/watch?v=", "youtu.be/"}),
               matchId(url, {"youtube.com/embed/"}),
               matchId(url, {"youtube.com/v/"}))

\* videoId || ''
orEmptyId(videoId) == IF videoId.ok THEN videoId.value ELSE ""

YouTubeResult(r) ==
    [title |-> r.title,
     url |-> IF startsWith(r.url, "//") THEN "https:" \o r.url ELSE r.url,
     snippet |-> r.snippet,
     videoId |-> orEmptyId(extractYouTubeId(r.url))]

isVideoUrl(r) == includes(r.url, "youtube.com/watch") \/ includes(r.url, "youtu.be/")
\* .filter((r) => r.videoId)
hasVideoId_Any(r) == TRUE
hasVideoId(r) == r.videoId # ""

mapYouTubeResult(rs) == [i \in 1..Len(rs) |-> YouTubeResult(rs[i])]
sliceResults(rs, n) == SubSeq(rs, 1, Min(n, Len(rs)))

youtubeSearch(fetch, maxResults) ==
    sliceResults(
        SelectSeq(mapYouTubeResult(SelectSeq(webSearch(fetch, maxResults + 3), isVideoUrl)),
                  hasVideoId),
        maxResults)

(***************************************************************************)
(* Formatting of results for the prompt (search.ts 175-199).               *)
(***************************************************************************)
RECURSIVE joinWith(_, _)
joinWith(parts, sep) ==
    IF parts = <<>> THEN ""
    ELSE IF Len(parts) = 1 THEN parts[1]
    ELSE parts[1] \o sep \o joinWith(Tail(parts), sep)

formatSearchResultsForContext(results) ==
    IF Len(results) = 0 THEN ""
    ELSE "## Web Search Results:\n\n"
         \o joinWith([i \in 1..Len(results) |->
                ToString(i) \o ". **[" \o results[i].title \o "](" \o results[i].url
                    \o ")**\n   " \o results[i].snippet], "\n\n")

\* the source marks the watch line with a film-clapper sign, left out here
formatYouTubeResultsForContext(results) ==
    IF Len(results) = 0 THEN ""
    ELSE "## YouTube Videos Found:\n\n"
         \o joinWith([i \in 1..Len(results) |->
                ToString(i) \o ". **[" \o results[i].title \o "](" \o results[i].url
                    \o ")**\n   " \o results[i].snippet
                    \o "\n   Watch: " \o results[i].url], "\n\n")

(***************************************************************************)
(* Experts (agents.ts 127-215).                                            *)
(***************************************************************************)
\* String.prototype.split(/\s+/), as a sequence of the pieces
RECURSIVE splitSpace(_, _)
splitSpace(s, piece) ==
    IF s = "" THEN <<piece>>
    ELSE IF Char(s, 1) \in SpaceChars
         THEN IF Len(s) > 1 /\ Char(s, 2) \in SpaceChars
              THEN splitSpace(SubSeq(s, 2, Len(s)), piece)
              ELSE <<piece>> \o splitSpace(SubSeq(s, 2, Len(s)), "")
         ELSE splitSpace(SubSeq(s, 2, Len(s)), piece \o Char(s, 1))

longerThan2(w) == Len(w) > 2

RECURSIVE countIncluded(_, _)
countIncluded(content, words) ==
    IF words = <<>> THEN 0
    ELSE (IF includes(content, Head(words)) THEN 1 ELSE 0)
         + countIncluded(content, Tail(words))

\* cosineSimilarity(generateEmbeddingSimple(message), JSON.parse(doc.embedding)) * 5,
\* in hundredths: lib/nvidia.ts and lib/utils.ts are outside the sources, the
\* value is carried by the document
cosineSimilarityTimes5(m, doc) == doc.embedding.similarity

queryWords(m) == SelectSeq(splitSpace(toLowerCase(m), ""), longerThan2)
docText(doc) == toLowerCase(doc.content \o " " \o doc.title \o " " \o doc.summary)

\* in hundredths.  doc.embedding.kind: "null", "invalid" (JSON.parse throws)
\* or "vector"; a null summary is ""
docScore(m, doc) ==
    100 * countIncluded(docText(doc), queryWords(m))
      + (IF doc.embedding.kind = "vector" THEN cosineSimilarityTimes5(m, doc) ELSE 0)

\* Array.prototype.sort((a, b) => b.score - a.score): stable, descending
RECURSIVE insertByScore(_, _)
insertByScore(sorted, d) ==
    IF sorted = <<>> THEN <<d>>
    ELSE IF Head(sorted).score >= d.score
         THEN <<Head(sorted)>> \o insertByScore(Tail(sorted), d)
         ELSE <<d>> \o sorted

RECURSIVE sortByScore(_)
sortByScore(ds) ==
    IF ds = <<>> THEN <<>>
    ELSE insertByScore(sortByScore(SubSeq(ds, 1, Len(ds) - 1)), ds[Len(ds)])

positiveScore(d) == d.score > 0

scoreDocs(m, docs) ==
    [i \in 1..Len(docs) |-> [doc |-> docs[i], score |-> docScore(m, docs[i])]]

docBlock(d) ==
    "### " \o d.doc.title \o "\n"
        \o (IF d.doc.summary # "" THEN d.doc.summary ELSE slice0(d.doc.content, 1500))

knowledgeOf(scoredDocs) ==
    [context |-> joinWith([i \in 1..Len(scoredDocs) |-> docBlock(scoredDocs[i])], "\n\n"),
     sources |-> [i \in 1..Len(scoredDocs) |->
                     [type |-> "document", title |-> scoredDocs[i].doc.title, url |-> ""]]]

runKnowledgeExpert(m, docs) ==
    knowledgeOf(SelectSeq(sliceResults(sortByScore(scoreDocs(m, docs)), 3), positiveScore))

\* the query sent (message, or cleanQuery) does not decide what fetch answers
searchOutput(results) ==
    [results |-> results, context |-> formatSearchResultsForContext(results)]
youtubeOutput(results) ==
    [results |-> results, context |-> formatYouTubeResultsForContext(results)]

runSearchExpert(m, fetch) == searchOutput(webSearch(fetch, 5))

runYouTubeExpert(m, fetch) == youtubeOutput(youtubeSearch(fetch, 5))

(***************************************************************************)
(* Orchestrator (agents.ts 302-365).                                       *)
(***************************************************************************)
EmptyResult == [results |-> <<>>, context |-> ""]
NoFetch == [kind |-> "none", html |-> <<>>]
NoTask == [status |-> "none", value |-> EmptyResult, fetch |-> NoFetch]
Pending == [status |-> "pending", value |-> EmptyResult, fetch |-> NoFetch]
Fulfilled(v, fetch) == [status |-> "fulfilled", value |-> v, fetch |-> fetch]

\* if (intents.includes(tag)) asyncTasks.push(...)
dispatched_Always(list, tag) == TRUE
dispatched(list, tag) == listIncludes(list, tag)

\* asyncResults[taskMap[tag]]?.status === 'fulfilled' ? value : empty
settled(task) == IF task.status = "fulfilled" THEN task.value ELSE EmptyResult

webSource(r) == [type |-> "web", title |-> r.title, url |-> r.url]
youtubeSource(r) == [type |-> "youtube", title |-> r.title, url |-> r.url]

\* agents.ts 341-364
buildContext(know, searchResult, youtubeResult, list) ==
    [knowledgeContext |-> know.context,
     searchResults |-> searchResult.results,
     youtubeResults |-> youtubeResult.results,
     searchContext |-> searchResult.context,
     youtubeContext |-> youtubeResult.context,
     sources |-> know.sources
                  \o [i \in 1..Len(searchResult.results) |->
                         webSource(searchResult.results[i])]
                  \o [i \in 1..Len(youtubeResult.results) |->
                         youtubeSource(youtubeResult.results[i])],
     expertsUsed |-> list]

\* the value of agentContext before runAgents returns
NoContext ==
    buildContext([context |-> "", sources |-> <<>>], EmptyResult, EmptyResult, <<>>)

\* a fail-fast barrier: one degraded expert empties both
aggregate_FailFast(know, sTask, yTask, list) ==
    IF \/ sTask.status = "fulfilled" /\ sTask.value = EmptyResult
       \/ yTask.status = "fulfilled" /\ yTask.value = EmptyResult
    THEN buildContext(know, EmptyResult, EmptyResult, list)
    ELSE buildContext(know, settled(sTask), settled(yTask), list)

\* agents.ts 326-364
aggregate(know, sTask, yTask, list) ==
    buildContext(know, settled(sTask), settled(yTask), list)

(***************************************************************************)
(* Consensus summarizer (agents.ts 219-257) and hfSummarize                *)
(* (lib/huggingface.ts 126-163).                                           *)
(***************************************************************************)
NoPromise == [status |-> "none", value |-> ""]
PendingText == [status |-> "pending", value |-> ""]
FulfilledText(v) == [status |-> "fulfilled", value |-> v]

\* What hfFetchWithRetry gives hfSummarize: it throws, or a response with a
\* status that is not ok, with a body that is not JSON, or with JSON data;
\* summary is data?.[0]?.summary_text, "" when absent
HfResponse(kind, summary) == [kind |-> kind, summary |-> summary]

hfSummarize(res) ==
    IF res.kind = "throws" THEN ""
    ELSE IF res.kind = "status" THEN ""
    ELSE IF res.kind = "notjson" THEN ""
    ELSE res.summary

\* status === 'fulfilled' ? value : ''
fulfilledOr(promise) == IF promise.status = "fulfilled" THEN promise.value ELSE ""

\* agents.ts 231-236: the summary to return without a merge, or the merge
oneSummary_PrimaryOnly(summary1, summary2) ==
    IF summary1 = "" \/ summary2 = "" THEN [merge |-> FALSE, output |-> summary1]
    ELSE [merge |-> TRUE, output |-> ""]

oneSummary(summary1, summary2) ==
    IF summary1 = "" /\ summary2 # "" THEN [merge |-> FALSE, output |-> summary2]
    ELSE IF summary1 # "" /\ summary2 = "" THEN [merge |-> FALSE, output |-> summary1]
    ELSE IF summary1 = "" /\ summary2 = "" THEN [merge |-> FALSE, output |-> ""]
    ELSE [merge |-> TRUE, output |-> ""]

\* What nvidiaChat gives: it throws, or it returns text
ChatOutcome(kind, text) == [kind |-> kind, text |-> text]

\* agents.ts 237-256
mergedOr(chat, summary1) == IF chat.kind = "throws" THEN summary1 ELSE chat.text

(***************************************************************************)
(* Fact-check validator (agents.ts 261-298) and hfChat                     *)
(* (lib/huggingface.ts 72-122).                                            *)
(***************************************************************************)
HF_CHAT_MODELS == <<"mistralai/Mistral-7B-Instruct-v0.3", "HuggingFaceH4/zephyr-7b-beta">>

\* the caution notice, without the warning sign of the source
Notice ==
    "\n\n> *Some claims in this response may need verification. Cross-reference with your source documents for accuracy.*"

\* agents.ts 287-293
checked_Replace(response, reply) ==
    IF includes(reply, "VALIDATED") \/ ~includes(reply, "ISSUES") THEN response
    ELSE Notice

checked(response, reply) ==
    IF includes(reply, "VALIDATED") \/ ~includes(reply, "ISSUES") THEN response
    ELSE response \o Notice

\* What one model of the chain gives hfChat: hfFetchWithRetry throws, the
\* status is not ok, or the body is read; content is
\* data.choices?.[0]?.message?.content, "" when absent or empty
ModelResponse(kind, content) == [kind |-> kind, content |-> content]

\* the lastError hfChat records for an answer without content
errorOf(res) ==
    IF res.kind = "throws" THEN "fetch failed"
    ELSE IF res.kind = "status" THEN "HF API status"
    ELSE "Empty HF response"

(***************************************************************************)
(* Inputs of a query.                                                      *)
(***************************************************************************)
\* DocumentForRAG: a null summary is "", the embedding is null, a string that
\* JSON.parse rejects, or a vector with its similarity to the query
Document(title, content, summary, kind, similarity) ==
    [title |-> title, content |-> content, summary |-> summary,
     embedding |-> [kind |-> kind, similarity |-> similarity]]

DocumentLists ==
    {<<>>,
     <<Document("Video notes", "a lecture on video codecs", "", "null", 0),
       Document("Paris", "Paris is the capital", "France in brief", "vector", 120),
       Document("Greetings", "hello world", "", "invalid", 0),
       Document("Unrelated", "how to cook", "", "vector", -150)>>}

Anchor(result, href, text, snippet) ==
    [result |-> result, href |-> href, text |-> text, snippet |-> snippet]

WikiAnchor ==
    Anchor(TRUE, "//duckduckgo.com/l/?uddg=https%3A%2F%2Fen.wikipedia.org%2Fwiki%2FNeuron&rut=1",
           "<b>Neuron</b> &amp; synapse", "A  neuron is a <b>cell</b>")
AdAnchor == Anchor(TRUE, "https://duckduckgo.com/y.js?ad=1", "Sponsored", "")
BadUddgAnchor == Anchor(TRUE, "//duckduckgo.com/l/?uddg=%zz", "Broken", "")
PlainLink == Anchor(FALSE, "https://example.org/neural", "Neural networks", "")

WatchAnchor ==
    Anchor(TRUE, "https://www.youtube.com/watch?v=dQw4w9WgXcQ", "Neural nets", "intro")
ShortAnchor ==
    Anchor(TRUE, "//duckduckgo.com/l/?uddg=https%3A%2F%2Fyoutu.be%2FabcDEF_-123&rut=2",
           "Backprop", "")
PlaylistAnchor ==
    Anchor(TRUE, "https://www.youtube.com/watch?list=PL12345", "A playlist", "")
ChannelAnchor ==
    Anchor(TRUE, "//www.youtube.com/embed/dQw4w9WgXcQ", "Embedded", "")
NestedAnchor ==
    Anchor(TRUE, "//youtu.be/x?next=youtube.com/embed/abcDEF_-123", "Nested", "")

\* the fetch outcomes of the search expert
SearchFetches ==
    {FetchThrows, FetchNotOk, FetchPage(<<>>),
     FetchPage(<<WikiAnchor, AdAnchor>>),
     FetchPage(<<WikiAnchor, BadUddgAnchor>>),
     FetchPage(<<AdAnchor, PlainLink>>),
     FetchPage(<<WikiAnchor, WatchAnchor, WikiAnchor, WatchAnchor, WikiAnchor, WatchAnchor>>)}

\* the fetch outcomes of the video expert
YoutubeFetches ==
    {FetchThrows, FetchNotOk, FetchPage(<<>>),
     FetchPage(<<WatchAnchor, PlaylistAnchor, ShortAnchor>>),
     FetchPage(<<PlaylistAnchor, ChannelAnchor>>),
     FetchPage(<<NestedAnchor, BadUddgAnchor>>),
     FetchPage(<<WikiAnchor, WatchAnchor, PlainLink>>),
     FetchPage(<<WatchAnchor, ShortAnchor, NestedAnchor, WatchAnchor, ShortAnchor,
                 NestedAnchor>>)}

\* the expert degraded: fetch failed or the page could not be parsed
fetchFailed(fetch) ==
    \/ fetch.kind \in {"throws", "status"}
    \/ fetch.kind = "page" /\ ~parseDDGResults(fetch.html, 8).ok

(***************************************************************************)
(* runAgents, one action per stretch between awaits.                       *)
(***************************************************************************)
videoIdle == videoPc = "idle" /\ videoFetch = NoFetch /\ videoResults = <<>>

sumIdle ==
    /\ sumPc = "idle" /\ sumText = ""
    /\ nvidiaSummary = NoPromise /\ hfSummaryResult = NoPromise
    /\ mergeCalls = 0 /\ sumOutput = ""

valIdle ==
    /\ valPc = "idle" /\ valResponse = "" /\ valModel = 0 /\ lastError = ""
    /\ validation = "" /\ valThrew = FALSE /\ valOutput = ""

\* no ingestion or rebuild yet; row 0 of lastBatch.before is unused
NoFailure == [ai |-> FALSE, upsert |-> {}, doc |-> FALSE, link |-> {}, at |-> 0]
NoReport == [nodesCreated |-> 0, connectionsCreated |-> 0]
NoBatch == [kind |-> "none", title |-> "", entities |-> <<>>, fails |-> NoFailure,
            before |-> <<>>, documents |-> <<>>, reported |-> NoReport]

storeIdle ==
    knowledgeNode = <<>> /\ document = <<>> /\ batches = 0 /\ lastBatch = NoBatch

raceIdle == running = <<>>

NoResponse == [kind |-> "none", status |-> 0, estimated_time |-> 0, summary_text |-> ""]
NoSummary == [threw |-> FALSE, value |-> ""]

retryIdle ==
    /\ retryPc = "idle" /\ retries = 0 /\ attempt = 0 /\ fetches = 0
    /\ waits = <<>> /\ fetched = NoResponse /\ hfSummary = NoSummary

otpIdle == otpCode = <<>> /\ requests = <<>> /\ password = 0

otherIdle == raceIdle /\ retryIdle /\ otpIdle

studioIdle ==
    /\ studioPc = "idle"
    /\ selectedNode = 0
    /\ data = [nodes |-> <<>>, links |-> <<>>]
    /\ graphData = [nodes |-> <<>>, links |-> <<>>]

agentIdle ==
    /\ message = "" /\ documents = <<>> /\ pc = "idle" /\ intents = <<>>
    /\ knowledgeResult = [context |-> "", sources |-> <<>>]
    /\ called = {} /\ searchTask = NoTask /\ youtubeTask = NoTask
    /\ agentContext = NoContext

\* classifyIntent on its own
InitClassify ==
    /\ otherIdle
    /\ message \in Messages
    /\ documents = <<>>
    /\ pc = "classify"
    /\ intents = <<>>
    /\ knowledgeResult = [context |-> "", sources |-> <<>>]
    /\ called = {}
    /\ searchTask = NoTask
    /\ youtubeTask = NoTask
    /\ agentContext = NoContext
    /\ videoIdle /\ sumIdle /\ valIdle /\ hfConfigured = FALSE /\ storeIdle /\ studioIdle

Classify ==
    /\ pc = "classify"
    /\ intents' = classifyIntent(message)
    /\ pc' = "classified"
    /\ UNCHANGED <<message, documents, knowledgeResult, called, searchTask,
                   youtubeTask, agentContext, videoVars, sumVars, valVars, envVars, otherVars, storeVars, studioVars>>

SpecClassify == InitClassify /\ [][Classify]_vars

Init ==
    /\ otherIdle
    /\ message \in Queries
    /\ documents \in DocumentLists
    /\ pc = "start"
    /\ intents = <<>>
    /\ knowledgeResult = [context |-> "", sources |-> <<>>]
    /\ called = {}
    /\ searchTask = NoTask
    /\ youtubeTask = NoTask
    /\ agentContext = NoContext
    /\ videoIdle /\ sumIdle /\ valIdle /\ hfConfigured = FALSE /\ storeIdle /\ studioIdle

\* agents.ts 313-324: the async experts the intents select are started
startTasks(list) ==
    /\ searchTask' = IF dispatched(list, "search") THEN Pending ELSE NoTask
    /\ youtubeTask' = IF dispatched(list, "youtube") THEN Pending ELSE NoTask
    /\ called' = {"knowledge"}
                   \cup (IF dispatched(list, "search") THEN {"search"} ELSE {})
                   \cup (IF dispatched(list, "youtube") THEN {"youtube"} ELSE {})

\* agents.ts 306-324: classify, run the knowledge expert, start the async experts
Dispatch ==
    /\ pc = "start"
    /\ intents' = classifyIntent(message)
    /\ startTasks(intents')
    /\ knowledgeResult' = runKnowledgeExpert(message, documents)
    /\ pc' = "awaiting"
    /\ UNCHANGED <<message, documents, agentContext, videoVars, sumVars, valVars, envVars, otherVars, storeVars, studioVars>>

\* the promise of runSearchExpert settles
SearchSettles ==
    /\ pc = "awaiting" /\ searchTask.status = "pending"
    /\ \E fetch \in SearchFetches :
           searchTask' = Fulfilled(runSearchExpert(message, fetch), fetch)
    /\ UNCHANGED <<message, documents, pc, intents, knowledgeResult, called,
                   youtubeTask, agentContext, videoVars, sumVars, valVars, envVars, otherVars, storeVars, studioVars>>

\* the promise of runYouTubeExpert settles
YoutubeSettles ==
    /\ pc = "awaiting" /\ youtubeTask.status = "pending"
    /\ \E fetch \in YoutubeFetches :
           youtubeTask' = Fulfilled(runYouTubeExpert(message, fetch), fetch)
    /\ UNCHANGED <<message, documents, pc, intents, knowledgeResult, called,
                   searchTask, agentContext, videoVars, sumVars, valVars, envVars, otherVars, storeVars, studioVars>>

\* agents.ts 326-364: Promise.allSettled resolves, the context is assembled
Aggregate ==
    /\ pc = "awaiting"
    /\ searchTask.status # "pending" /\ youtubeTask.status # "pending"
    /\ agentContext' = aggregate(knowledgeResult, searchTask, youtubeTask, intents)
    /\ pc' = "done"
    /\ UNCHANGED <<message, documents, intents, knowledgeResult, called,
                   searchTask, youtubeTask, videoVars, sumVars, valVars, envVars, otherVars, storeVars, studioVars>>

Next == Dispatch \/ SearchSettles \/ YoutubeSettles \/ Aggregate

Spec == Init /\ [][Next]_vars

\* once the experts are started, the event loop runs every continuation that
\* is ready, and each fetch succeeds or fails: it is aborted after SEARCH_TIMEOUT
FairSpec == Spec /\ WF_vars(SearchSettles \/ YoutubeSettles \/ Aggregate)

(***************************************************************************)
(* youtubeSearch on its own (search.ts 63-80), over every page of at most  *)
(* MaxAnchors anchors.                                                     *)
(***************************************************************************)
VideoAnchors == {WatchAnchor, ShortAnchor, PlaylistAnchor}

VideoPages == UNION {[1..n -> VideoAnchors] : n \in 0..MaxAnchors}

InitVideo ==
    /\ otherIdle
    /\ agentIdle /\ sumIdle /\ valIdle /\ hfConfigured = FALSE /\ storeIdle /\ studioIdle
    /\ videoPc = "call"
    /\ videoFetch \in YoutubeFetches \cup {FetchPage(html) : html \in VideoPages}
    /\ videoResults = <<>>

\* youtubeSearch(query, 5), as runYouTubeExpert calls it (agents.ts 208)
YoutubeSearch ==
    /\ videoPc = "call"
    /\ videoResults' = youtubeSearch(videoFetch, 5)
    /\ videoPc' = "returned"
    /\ UNCHANGED <<videoFetch, agentVars, sumVars, valVars, envVars, otherVars, storeVars, studioVars>>

SpecVideo == InitVideo /\ [][YoutubeSearch]_vars

(***************************************************************************)
(* consensusSummarize, one action per stretch between awaits.              *)
(***************************************************************************)
Texts == {"Paris is the capital of France. It lies on the Seine.", "x"}

\* generateSummary (lib/nvidia.ts): rejects, or resolves to a summary that
\* may be empty
GenerateSummaryOutcomes ==
    {[status |-> "rejected", value |-> ""], FulfilledText(""), FulfilledText("Paris is the capital of France."),
     FulfilledText("Paris lies on the Seine.")}

HfResponses ==
    {HfResponse("throws", ""), HfResponse("status", ""), HfResponse("notjson", ""),
     HfResponse("data", ""), HfResponse("data", "Paris lies on the Seine."),
     HfResponse("data", "The capital of France is Paris.")}

\* nvidiaChat (lib/nvidia.ts) on the merge prompt: throws, or returns text that
\* may be empty
NvidiaChatOutcomes ==
    {ChatOutcome("throws", ""), ChatOutcome("returns", ""),
     ChatOutcome("returns", "Paris, on the Seine, is the capital of France.")}

InitSummarize ==
    /\ otherIdle
    /\ agentIdle /\ videoIdle /\ valIdle /\ storeIdle /\ studioIdle
    /\ sumPc = "start"
    /\ sumText \in Texts
    /\ hfConfigured \in BOOLEAN
    /\ nvidiaSummary = NoPromise
    /\ hfSummaryResult = NoPromise
    /\ mergeCalls = 0
    /\ sumOutput = ""

\* agents.ts 221-224: both summarization calls are issued
SummarizeStart ==
    /\ sumPc = "start"
    /\ nvidiaSummary' = PendingText
    /\ hfSummaryResult' = IF hfConfigured THEN PendingText ELSE FulfilledText("")
    /\ sumPc' = "awaiting"
    /\ UNCHANGED <<sumText, mergeCalls, sumOutput, agentVars, videoVars, valVars,
                   envVars, otherVars, storeVars, studioVars>>

GenerateSummarySettles ==
    /\ sumPc = "awaiting" /\ nvidiaSummary.status = "pending"
    /\ nvidiaSummary' \in GenerateSummaryOutcomes
    /\ UNCHANGED <<sumPc, sumText, hfSummaryResult, mergeCalls, sumOutput,
                   agentVars, videoVars, valVars, envVars, otherVars, storeVars, studioVars>>

HfSummarizeSettles ==
    /\ sumPc = "awaiting" /\ hfSummaryResult.status = "pending"
    /\ \E res \in HfResponses : hfSummaryResult' = FulfilledText(hfSummarize(res))
    /\ UNCHANGED <<sumPc, sumText, nvidiaSummary, mergeCalls, sumOutput,
                   agentVars, videoVars, valVars, envVars, otherVars, storeVars, studioVars>>

\* agents.ts 226-252, up to the await of the merge call
afterSettled(decision) ==
    IF decision.merge
    THEN /\ mergeCalls' = mergeCalls + 1
         /\ sumPc' = "merging"
         /\ UNCHANGED sumOutput
    ELSE /\ sumOutput' = decision.output
         /\ sumPc' = "done"
         /\ UNCHANGED mergeCalls

SummariesSettled ==
    /\ sumPc = "awaiting"
    /\ nvidiaSummary.status # "pending" /\ hfSummaryResult.status # "pending"
    /\ afterSettled(oneSummary(fulfilledOr(nvidiaSummary), fulfilledOr(hfSummaryResult)))
    /\ UNCHANGED <<sumText, nvidiaSummary, hfSummaryResult, agentVars,
                   videoVars, valVars, envVars, otherVars, storeVars, studioVars>>

\* agents.ts 253-256: the merge call settles
MergeSettles ==
    /\ sumPc = "merging"
    /\ \E chat \in NvidiaChatOutcomes :
           sumOutput' = mergedOr(chat, fulfilledOr(nvidiaSummary))
    /\ sumPc' = "done"
    /\ UNCHANGED <<sumText, nvidiaSummary, hfSummaryResult, mergeCalls,
                   agentVars, videoVars, valVars, envVars, otherVars, storeVars, studioVars>>

NextSummarize ==
    \/ SummarizeStart
    \/ GenerateSummarySettles
    \/ HfSummarizeSettles
    \/ SummariesSettled
    \/ MergeSettles

SpecSummarize == InitSummarize /\ [][NextSummarize]_vars

(***************************************************************************)
(* validateResponse, one action per stretch between awaits.                *)
(***************************************************************************)
Answers ==
    {"", "Paris is the capital of France.", "ISSUES were VALIDATED in 1999.",
     "The Seine is 777 km long."}

Replies ==
    {"VALIDATED", "ISSUES: the length of the Seine is not in the context",
     "ISSUES: the length of the Seine cannot be VALIDATED", "I am not sure.",
     "No ISSUES found", "validated", "Issues: none"}

ModelResponses ==
    {ModelResponse("throws", ""), ModelResponse("status", ""), ModelResponse("data", "")}
        \cup {ModelResponse("data", r) : r \in Replies}

InitValidate ==
    /\ otherIdle
    /\ agentIdle /\ videoIdle /\ sumIdle /\ storeIdle /\ studioIdle
    /\ valPc = "start"
    /\ valResponse \in Answers
    /\ hfConfigured \in BOOLEAN
    /\ valModel = 0
    /\ lastError = ""
    /\ validation = ""
    /\ valThrew = FALSE
    /\ valOutput = ""

\* agents.ts 266-268: not configured, the answer is returned at once
ValidateStart ==
    /\ valPc = "start"
    /\ IF ~hfConfigured
       THEN valOutput' = valResponse /\ valPc' = "done" /\ UNCHANGED valModel
       ELSE valModel' = 1 /\ valPc' = "chat" /\ UNCHANGED valOutput
    /\ UNCHANGED <<valResponse, lastError, validation, valThrew, agentVars, videoVars,
                   sumVars, envVars, otherVars, storeVars, studioVars>>

\* huggingface.ts 82-121 and agents.ts 287-297: the current model answers.
\* With content hfChat returns it and the reply is judged; without, the next
\* model is tried, and after the last one hfChat throws lastError, which
\* validateResponse catches
modelAnswered(res) ==
    IF res.kind = "data" /\ res.content # ""
    THEN /\ validation' = res.content
         /\ valOutput' = checked(valResponse, res.content)
         /\ valPc' = "done"
         /\ UNCHANGED <<valModel, lastError, valThrew>>
    ELSE IF valModel < Len(HF_CHAT_MODELS)
    THEN /\ lastError' = errorOf(res)
         /\ valModel' = valModel + 1
         /\ UNCHANGED <<validation, valOutput, valPc, valThrew>>
    ELSE /\ lastError' = errorOf(res)
         /\ valThrew' = TRUE
         /\ valOutput' = valResponse
         /\ valPc' = "done"
         /\ UNCHANGED <<validation, valModel>>

HfChatModelAnswers ==
    /\ valPc = "chat"
    /\ \E res \in ModelResponses : modelAnswered(res)
    /\ UNCHANGED <<valResponse, agentVars, videoVars, sumVars, envVars, otherVars, storeVars, studioVars>>

NextValidate == ValidateStart \/ HfChatModelAnswers

SpecValidate == InitValidate /\ [][NextValidate]_vars

\* hfChat settles: every request of hfFetchWithRetry is aborted after timeoutMs
FairSpecValidate == SpecValidate /\ WF_vars(NextValidate)

(***************************************************************************)
(* The knowledge graph: processDocumentWithAI (api/documents/route.ts) and *)
(* the rebuild of api/brain/graph/route.ts.  One user; a row's id is its   *)
(* index in knowledgeNode; strengths are counted in tenths; connections is *)
(* the parsed JSON array.  A handler runs from its first await to its last *)
(* without another handler in between.                                     *)
(***************************************************************************)
\* prisma.knowledgeNode.findFirst({ where: { userId, label } }): 0 for null
findFirst(rows, label) ==
    IF \E i \in 1..Len(rows) : rows[i].label = label
    THEN CHOOSE i \in 1..Len(rows) :
             rows[i].label = label /\ \A j \in 1..(i - 1) : rows[j].label # label
    ELSE 0

\* prisma.knowledgeNode.findMany({ where: { userId, label: { in: labels } } })
RECURSIVE findMany(_, _, _)
findMany(rows, labels, i) ==
    IF i > Len(rows) THEN <<>>
    ELSE (IF listIncludes(labels, rows[i].label) THEN <<i>> ELSE <<>>)
             \o findMany(rows, labels, i + 1)

\* documents/route.ts 222-225 and graph/route.ts 516: the data of the update
strengthened_Uncapped(row, entity, path) ==
    [row EXCEPT !.strength = @ + (IF path = "rebuild" THEN 3 ELSE 5)]
strengthened(row, entity, path) ==
    IF path = "rebuild"
    THEN [row EXCEPT !.strength = Min(@ + 3, 100)]
    ELSE [row EXCEPT !.strength = @ + 5,
                     !.type = IF @ = "entity" /\ entity.type # "entity"
                              THEN entity.type ELSE @]

\* documents/route.ts 204-230 and graph/route.ts 497-518, for the row i found
upsertAt(rows, i, entity, path) ==
    IF i = 0
    THEN Append(rows, [label |-> entity.name, type |-> entity.type, strength |-> 10,
                       connections |-> <<>>])
    ELSE [rows EXCEPT ![i] = strengthened(@, entity, path)]

upsertEntityNode(rows, entity, path) ==
    upsertAt(rows, findFirst(rows, entity.name), entity, path)

\* the loop over the entities: a write that throws is caught, its label is
\* not pushed
RECURSIVE upsertAll(_, _, _, _, _)
upsertAll(rows, entities, path, failing, labels) ==
    IF entities = <<>> THEN [rows |-> rows, labels |-> labels]
    ELSE IF Head(entities).name \in failing
    THEN upsertAll(rows, Tail(entities), path, failing, labels)
    ELSE upsertAll(upsertEntityNode(rows, Head(entities), path), Tail(entities), path,
                   failing, Append(labels, Head(entities).name))

\* the document node: created with the batch as connections, or merged
withDocNode_Unlinked(rows, d, title, nodes) ==
    IF d = 0
    THEN Append(rows, [label |-> title, type |-> "document", strength |-> 20,
                       connections |-> <<>>])
    ELSE rows
withDocNode(rows, d, title, nodes) ==
    IF d = 0
    THEN Append(rows, [label |-> title, type |-> "document", strength |-> 20,
                       connections |-> nodes])
    ELSE [rows EXCEPT ![d].connections = Dedup(@ \o nodes)]

without_All(nodes, n) == <<>>
without(nodes, n) == SelectSeq(nodes, LAMBDA m : m # n)

\* the loop over the nodes of the batch, from position k: existingConnections
\* is read from the rows found before the document node was written
\* the rebuild writes only when the merge is longer than what it read
connect(rows, n, existingConnections, newConnections, path) ==
    IF path = "rebuild" /\ Len(newConnections) = Len(existingConnections) THEN rows
    ELSE [rows EXCEPT ![n].connections = newConnections]

\* documents/route.ts 284-286 and graph/route.ts 565-567: the merge is a Set
newConnections_NoSet(existingConnections, otherNodeIds, docId) ==
    existingConnections \o otherNodeIds \o <<docId>>
newConnections(existingConnections, otherNodeIds, docId) ==
    Dedup(existingConnections \o otherNodeIds \o <<docId>>)

RECURSIVE connectAll(_, _, _, _, _, _, _)
connectAll(rows, found, nodes, docId, failing, path, k) ==
    IF k > Len(nodes) THEN rows
    ELSE IF found[nodes[k]].label \in failing
    THEN connectAll(rows, found, nodes, docId, failing, path, k + 1)
    ELSE connectAll(
             connect(rows, nodes[k], found[nodes[k]].connections,
                     newConnections(found[nodes[k]].connections,
                                    without(nodes, nodes[k]), docId),
                     path),
             found, nodes, docId, failing, path, k + 1)

\* graph/route.ts 569-573: connectionsCreated grows by what a merge adds to
\* the connections read; a write that throws adds nothing
RECURSIVE connectionsAdded(_, _, _, _, _)
connectionsAdded(found, nodes, docId, failing, k) ==
    IF k > Len(nodes) THEN 0
    ELSE (IF found[nodes[k]].label \in failing THEN 0
          ELSE Len(newConnections(found[nodes[k]].connections,
                                  without(nodes, nodes[k]), docId))
                   - Len(found[nodes[k]].connections))
             + connectionsAdded(found, nodes, docId, failing, k + 1)

\* documents/route.ts 245-293 and graph/route.ts 527-576.  ok is FALSE when
\* the write of the document node threw: nothing catches it in the batch
linkNodes(rows, nodes, d, title, fails, path) ==
    IF fails.doc THEN [rows |-> rows, ok |-> FALSE, connectionsCreated |-> 0]
    ELSE [rows |-> connectAll(withDocNode(rows, d, title, nodes), rows, nodes,
                              IF d = 0 THEN Len(rows) + 1 ELSE d, fails.link, path, 1),
          ok |-> TRUE,
          connectionsCreated |->
              connectionsAdded(rows, nodes, IF d = 0 THEN Len(rows) + 1 ELSE d,
                               fails.link, 1)]

linkCooccurring(upserted, title, fails, path) ==
    IF upserted.labels = <<>>
    THEN [rows |-> upserted.rows, ok |-> TRUE, connectionsCreated |-> 0]
    ELSE linkNodes(upserted.rows, findMany(upserted.rows, upserted.labels, 1),
                   findFirst(upserted.rows, title), title, fails, path)

\* documents/route.ts 162-299: the outer catch swallows what is thrown; when
\* the extraction or the update of the document throws, no node is written
processDocumentWithAI(rows, doc, fails) ==
    IF fails.ai THEN rows
    ELSE linkCooccurring(upsertAll(rows, doc.entities, "ingest", fails.upsert, <<>>),
                         doc.title, fails, "ingest").rows

\* graph/route.ts 432-446: the entities saved with the document are names,
\* read back with type 'entity'
asEntity(entities) ==
    [i \in 1..Len(entities) |-> [name |-> entities[i].name, type |-> "entity"]]

\* graph/route.ts 432-487: the names saved with the document when there are
\* any, else what the extraction gives now, with its types
entitiesFor(doc) == IF doc.stored THEN asEntity(doc.entities) ELSE doc.entities

\* graph/route.ts 424-577, the documents from position i on; what the write
\* of a document node throws leaves the handler, and a failed extraction
\* skips the document
RECURSIVE rebuildFrom(_, _, _, _, _)
rebuildStep(linked, docs, i, fails, connectionsCreated) ==
    IF linked.ok
    THEN rebuildFrom(linked.rows, docs, i + 1, fails,
                     connectionsCreated + linked.connectionsCreated)
    ELSE [rows |-> linked.rows, docs |-> docs, connectionsCreated |-> connectionsCreated]

rebuildFrom(rows, docs, i, fails, connectionsCreated) ==
    IF i > Len(docs)
    THEN [rows |-> rows, docs |-> docs, connectionsCreated |-> connectionsCreated]
    ELSE IF docs[i].entities = <<>> \/ (fails.at = i /\ fails.ai /\ ~docs[i].stored)
    THEN rebuildFrom(rows, docs, i + 1, fails, connectionsCreated)
    ELSE rebuildStep(
             linkCooccurring(
                 upsertAll(rows, entitiesFor(docs[i]), "rebuild",
                           IF fails.at = i THEN fails.upsert ELSE {}, <<>>),
                 docs[i].title,
                 IF fails.at = i THEN fails ELSE NoFailure, "rebuild"),
             [docs EXCEPT ![i].stored = TRUE], i, fails, connectionsCreated)

(***************************************************************************)
(* Uploads, failing writes, and the handlers that change the graph.        *)
(***************************************************************************)
Upload(title, entities) == [title |-> title, entities |-> entities]

Uploads ==
    {Upload("Report", <<[name |-> "Paris", type |-> "topic"],
                        [name |-> "France", type |-> "entity"]>>),
     Upload("Paris", <<[name |-> "Paris", type |-> "topic"],
                       [name |-> "France", type |-> "entity"]>>),
     Upload("Notes", <<[name |-> "France", type |-> "place"]>>),
     Upload("Atlas", <<[name |-> "Seine", type |-> "place"],
                       [name |-> "France", type |-> "entity"],
                       [name |-> "Paris", type |-> "topic"]>>),
     Upload("Blank", <<>>)}

\* the writes that throw during the batch of document number at
Failures(at) ==
    {NoFailure,
     [ai |-> TRUE, upsert |-> {}, doc |-> FALSE, link |-> {}, at |-> at],
     [ai |-> FALSE, upsert |-> {"Paris"}, doc |-> FALSE, link |-> {}, at |-> at],
     [ai |-> FALSE, upsert |-> {}, doc |-> TRUE, link |-> {}, at |-> at],
     [ai |-> FALSE, upsert |-> {}, doc |-> FALSE, link |-> {"France"}, at |-> at]}

\* the row of a document: stored tells whether its entities were saved
Row(doc, stored) == [title |-> doc.title, entities |-> doc.entities, stored |-> stored]

\* PATCH of documents/route.ts, n times over: the same document re-processed
RECURSIVE reprocessed(_, _, _)
reprocessed(rows, doc, n) ==
    IF n = 0 THEN rows
    ELSE CHOOSE after \in {reprocessed(next, doc, n - 1) :
                               next \in {processDocumentWithAI(rows, doc, NoFailure)}} : TRUE

InitStore ==
    /\ otherIdle
    /\ agentIdle /\ videoIdle /\ sumIdle /\ valIdle /\ studioIdle
    /\ hfConfigured = FALSE
    /\ \E n \in {0, Reprocessed} :
           /\ document = IF n = 0 THEN <<>>
                          ELSE <<Row(Upload("Report", <<[name |-> "Paris", type |-> "topic"]>>),
                                     TRUE)>>
           /\ knowledgeNode =
                  reprocessed(<<>>, Upload("Report", <<[name |-> "Paris", type |-> "topic"]>>), n)
    /\ batches = 0
    /\ lastBatch = NoBatch

batchDone(kind, doc, fails, reported) ==
    /\ batches' = batches + 1
    /\ lastBatch' = [kind |-> kind, title |-> doc.title, entities |-> doc.entities,
                     fails |-> fails, before |-> knowledgeNode, documents |-> document,
                     reported |-> reported]

\* POST of documents/route.ts: the document is created and processed
Ingest ==
    /\ batches < MaxBatches
    /\ \E doc \in Uploads : \E fails \in Failures(0) :
           /\ document' = Append(document, Row(doc, ~fails.ai))
           /\ knowledgeNode' = processDocumentWithAI(knowledgeNode, doc, fails)
           /\ batchDone("ingest", doc, fails, NoReport)
    /\ UNCHANGED <<agentVars, videoVars, sumVars, valVars, envVars, otherVars, studioVars>>

\* PATCH of documents/route.ts: a document of the user is processed again
Reprocess ==
    /\ batches < MaxBatches
    /\ \E i \in 1..Len(document) : \E fails \in Failures(0) :
           /\ document' = [document EXCEPT ![i].stored = @ \/ ~fails.ai]
           /\ knowledgeNode' = processDocumentWithAI(knowledgeNode, document[i], fails)
           /\ batchDone("reprocess", document[i], fails, NoReport)
    /\ UNCHANGED <<agentVars, videoVars, sumVars, valVars, envVars, otherVars, studioVars>>

\* POST of graph/route.ts: the graph is rebuilt from every document, and
\* the response counts the rows created and the connections added
Rebuild ==
    /\ batches < MaxBatches
    /\ \E at \in 1..Len(document) : \E fails \in Failures(at) :
       \E rebuilt \in {rebuildFrom(knowledgeNode, document, 1, fails, 0)} :
           /\ knowledgeNode' = rebuilt.rows
           /\ document' = rebuilt.docs
           /\ batchDone("rebuild", Upload("", <<>>), fails,
                        [nodesCreated |-> Len(rebuilt.rows) - Len(knowledgeNode),
                         connectionsCreated |-> rebuilt.connectionsCreated])
    /\ UNCHANGED <<agentVars, videoVars, sumVars, valVars, envVars, otherVars, studioVars>>

NextStore == Ingest \/ Reprocess \/ Rebuild

SpecStore == InitStore /\ [][NextStore]_vars

(***************************************************************************)
(* Two handlers of the knowledge graph at once.  processDocumentWithAI is   *)
(* started without await (documents/route.ts 442), so the steps of two      *)
(* batches interleave at every await: each step below is one query.         *)
(***************************************************************************)
NoRow == [label |-> "", type |-> "", strength |-> 0, connections |-> <<>>]

Started(doc, path) ==
    [doc |-> doc, path |-> path, pc |-> "find", k |-> 1, id |-> 0, read |-> NoRow,
     labels |-> <<>>, nodes |-> <<>>, found |-> <<>>, docId |-> 0]

Handlers == {1, 2}

\* the row a findFirst resolved to
rowAt(rows, i) == IF i = 0 THEN NoRow ELSE rows[i]

\* prisma.knowledgeNode.update({ where: { id }, data }): data was computed
\* from the row that was read
updated(rows, i, read, entity, path) ==
    [rows EXCEPT ![i].strength = strengthened(read, entity, path).strength,
                 ![i].type = IF strengthened(read, entity, path).type # read.type
                             THEN strengthened(read, entity, path).type ELSE @]

\* documents/route.ts 204-206, graph/route.ts 497-499
FindEntity(h) ==
    /\ running[h].pc = "find"
    /\ \E i \in {findFirst(knowledgeNode, running[h].doc.entities[running[h].k].name)} :
           running' = [running EXCEPT ![h].id = i, ![h].read = rowAt(knowledgeNode, i),
                                      ![h].pc = "write"]
    /\ UNCHANGED <<agentVars, videoVars, sumVars, valVars, envVars, retryVars, otpVars, storeVars, studioVars>>

\* documents/route.ts 208-231, graph/route.ts 501-519
WriteEntity(h) ==
    /\ running[h].pc = "write"
    /\ \E entity \in {running[h].doc.entities[running[h].k]} :
           /\ knowledgeNode' =
                  IF running[h].id = 0
                  THEN upsertAt(knowledgeNode, 0, entity, running[h].path)
                  ELSE updated(knowledgeNode, running[h].id, running[h].read, entity,
                               running[h].path)
           /\ running' = [running EXCEPT
                  ![h].labels = Append(@, entity.name),
                  ![h].k = @ + 1,
                  ![h].pc = IF running[h].k = Len(running[h].doc.entities)
                            THEN "findMany" ELSE "find"]
    /\ UNCHANGED <<document, batches, lastBatch>>
    /\ UNCHANGED <<agentVars, videoVars, sumVars, valVars, envVars, retryVars, otpVars, studioVars>>

\* documents/route.ts 246-248, graph/route.ts 528-530
FindMany(h) ==
    /\ running[h].pc = "findMany"
    /\ running' = [running EXCEPT
           ![h].nodes = findMany(knowledgeNode, running[h].labels, 1),
           ![h].found = knowledgeNode,
           ![h].pc = "findDoc"]
    /\ UNCHANGED <<agentVars, videoVars, sumVars, valVars, envVars, retryVars, otpVars, storeVars, studioVars>>

\* documents/route.ts 253, graph/route.ts 533-535
FindDoc(h) ==
    /\ running[h].pc = "findDoc"
    /\ \E d \in {findFirst(knowledgeNode, running[h].doc.title)} :
           running' = [running EXCEPT ![h].id = d, ![h].read = rowAt(knowledgeNode, d),
                                      ![h].pc = "writeDoc"]
    /\ UNCHANGED <<agentVars, videoVars, sumVars, valVars, envVars, retryVars, otpVars, storeVars, studioVars>>

\* documents/route.ts 255-276, graph/route.ts 537-557: the merge starts from
\* the connections that were read
WriteDoc(h) ==
    /\ running[h].pc = "writeDoc"
    /\ \E d \in {running[h].id} :
           /\ knowledgeNode' =
                  IF d = 0
                  THEN withDocNode(knowledgeNode, 0, running[h].doc.title, running[h].nodes)
                  ELSE withDocNode([knowledgeNode EXCEPT
                                        ![d].connections = running[h].read.connections],
                                   d, running[h].doc.title, running[h].nodes)
           /\ running' = [running EXCEPT
                  ![h].docId = IF d = 0 THEN Len(knowledgeNode) + 1 ELSE d,
                  ![h].k = 1,
                  ![h].pc = "link"]
    /\ UNCHANGED <<document, batches, lastBatch>>
    /\ UNCHANGED <<agentVars, videoVars, sumVars, valVars, envVars, retryVars, otpVars, studioVars>>

\* documents/route.ts 279-293, graph/route.ts 560-576: one node of the batch
LinkNode(h) ==
    /\ running[h].pc = "link"
    /\ \E n \in {running[h].nodes[running[h].k]} :
           /\ knowledgeNode' =
                  connect(knowledgeNode, n, running[h].found[n].connections,
                          newConnections(running[h].found[n].connections,
                                         without(running[h].nodes, n), running[h].docId),
                          running[h].path)
           /\ running' = [running EXCEPT
                  ![h].k = @ + 1,
                  ![h].pc = IF running[h].k = Len(running[h].nodes) THEN "done" ELSE "link"]
    /\ UNCHANGED <<document, batches, lastBatch>>
    /\ UNCHANGED <<agentVars, videoVars, sumVars, valVars, envVars, retryVars, otpVars, studioVars>>

\* the documents of two uploads made at once
RaceUploads ==
    {Upload("Report", <<[name |-> "Paris", type |-> "topic"],
                        [name |-> "France", type |-> "entity"]>>),
     Upload("Notes", <<[name |-> "France", type |-> "place"]>>),
     Upload("Memo", <<[name |-> "France", type |-> "place"],
                      [name |-> "Seine", type |-> "place"]>>)}

InitRace ==
    /\ agentIdle /\ videoIdle /\ sumIdle /\ valIdle /\ studioIdle
    /\ hfConfigured = FALSE /\ retryIdle /\ otpIdle
    /\ document = <<>> /\ batches = 0 /\ lastBatch = NoBatch
    /\ knowledgeNode \in
           {<<>>,
            processDocumentWithAI(<<>>, Upload("Atlas", <<[name |-> "France",
                                                           type |-> "entity"]>>),
                                  NoFailure)}
    /\ \E first, second \in RaceUploads : \E path \in {"ingest", "rebuild"} :
           running = <<Started(first, "ingest"), Started(second, path)>>

NextRace ==
    \E h \in Handlers :
        \/ FindEntity(h)
        \/ WriteEntity(h)
        \/ FindMany(h)
        \/ FindDoc(h)
        \/ WriteDoc(h)
        \/ LinkNode(h)

SpecRace == InitRace /\ [][NextRace]_vars

(***************************************************************************)
(* hfSummarize and hfFetchWithRetry (lib/huggingface.ts).  Times are in ms; *)
(* estimated_time 0 stands for a body without the field.  A fetch settles   *)
(* or is aborted after timeoutMs.                                           *)
(***************************************************************************)
Response(status, estimated_time, summary_text) ==
    [kind |-> "response", status |-> status, estimated_time |-> estimated_time,
     summary_text |-> summary_text]

Thrown == [kind |-> "error", status |-> 0, estimated_time |-> 0, summary_text |-> ""]

\* what fetch can settle to
Settlements ==
    {Thrown, Response(200, 0, "A summary."), Response(200, 0, ""), Response(500, 0, "")}
        \cup {Response(503, e, "") : e \in {0, 5, 30, 45}}

\* huggingface.ts 42: Math.min((body.estimated_time || 15) * 1000, 30_000)
wait_Uncapped(estimated_time) == (IF estimated_time = 0 THEN 15 ELSE estimated_time) * 1000
wait(estimated_time) ==
    Min((IF estimated_time = 0 THEN 15 ELSE estimated_time) * 1000, 30000)

InitRetry ==
    /\ agentIdle /\ videoIdle /\ sumIdle /\ valIdle /\ storeIdle /\ studioIdle /\ raceIdle
    /\ otpIdle
    /\ hfConfigured = TRUE
    /\ retryPc = "fetch"
    /\ retries \in 0..MaxRetries
    /\ attempt = 0 /\ fetches = 0 /\ waits = <<>> /\ fetched = NoResponse
    /\ hfSummary = NoSummary

\* huggingface.ts 32-37: one iteration's fetch
Fetch ==
    /\ retryPc = "fetch"
    /\ attempt <= retries
    /\ fetched' \in Settlements
    /\ fetches' = fetches + 1
    /\ retryPc' = "settled"
    /\ UNCHANGED <<retries, attempt, waits, hfSummary>>
    /\ UNCHANGED <<agentVars, videoVars, sumVars, valVars, envVars, storeVars, studioVars,
                   raceVars, otpVars>>

\* huggingface.ts 40-46: the model is loading and an attempt is left
RetryLoading ==
    /\ retryPc = "settled"
    /\ fetched.kind = "response" /\ fetched.status = 503 /\ attempt < retries
    /\ waits' = Append(waits, [cause |-> "loading", estimated_time |-> fetched.estimated_time,
                               ms |-> wait(fetched.estimated_time)])
    /\ attempt' = attempt + 1
    /\ retryPc' = "fetch"
    /\ UNCHANGED <<retries, fetches, fetched, hfSummary>>
    /\ UNCHANGED <<agentVars, videoVars, sumVars, valVars, envVars, storeVars, studioVars,
                   raceVars, otpVars>>

\* huggingface.ts 48
ReturnResponse ==
    /\ retryPc = "settled"
    /\ fetched.kind = "response" /\ ~(fetched.status = 503 /\ attempt < retries)
    /\ retryPc' = "returned"
    /\ UNCHANGED <<retries, attempt, fetches, waits, fetched, hfSummary>>
    /\ UNCHANGED <<agentVars, videoVars, sumVars, valVars, envVars, storeVars, studioVars,
                   raceVars, otpVars>>

\* huggingface.ts 49-55: fetch threw and an attempt is left
RetryThrown ==
    /\ retryPc = "settled"
    /\ fetched.kind = "error" /\ attempt < retries
    /\ waits' = Append(waits, [cause |-> "error", estimated_time |-> 0, ms |-> 3000])
    /\ attempt' = attempt + 1
    /\ retryPc' = "fetch"
    /\ UNCHANGED <<retries, fetches, fetched, hfSummary>>
    /\ UNCHANGED <<agentVars, videoVars, sumVars, valVars, envVars, storeVars, studioVars,
                   raceVars, otpVars>>

\* huggingface.ts 56
Rethrow ==
    /\ retryPc = "settled"
    /\ fetched.kind = "error" /\ ~(attempt < retries)
    /\ retryPc' = "threw"
    /\ UNCHANGED <<retries, attempt, fetches, waits, fetched, hfSummary>>
    /\ UNCHANGED <<agentVars, videoVars, sumVars, valVars, envVars, storeVars, studioVars,
                   raceVars, otpVars>>

\* huggingface.ts 150-158: hfSummarize with the response
Summarized ==
    /\ retryPc = "returned"
    /\ hfSummary' = [threw |-> FALSE,
                     value |-> IF fetched.status = 200 THEN fetched.summary_text ELSE ""]
    /\ retryPc' = "done"
    /\ UNCHANGED <<retries, attempt, fetches, waits, fetched>>
    /\ UNCHANGED <<agentVars, videoVars, sumVars, valVars, envVars, storeVars, studioVars,
                   raceVars, otpVars>>

\* huggingface.ts 159-162: hfSummarize catches what the wrapper threw
SummarizeFailed ==
    /\ retryPc = "threw"
    /\ hfSummary' = [threw |-> FALSE, value |-> ""]
    /\ retryPc' = "done"
    /\ UNCHANGED <<retries, attempt, fetches, waits, fetched>>
    /\ UNCHANGED <<agentVars, videoVars, sumVars, valVars, envVars, storeVars, studioVars,
                   raceVars, otpVars>>

NextRetry ==
    \/ Fetch
    \/ RetryLoading
    \/ ReturnResponse
    \/ RetryThrown
    \/ Rethrow
    \/ Summarized
    \/ SummarizeFailed

SpecRetry == InitRetry /\ [][NextRetry]_vars

\* every fetch settles or is aborted by its timer, and every wait ends
FairSpecRetry == SpecRetry /\ WF_vars(NextRetry)

(***************************************************************************)
(* The password reset of one user: POST /api/auth/verify-otp and POST      *)
(* /api/auth/reset-password.  Each step of a request is one query; the      *)
(* requests interleave at every await.  A row's id is its index in otpCode; *)
(* codes are numbers: the OTP sent by mail, a wrong guess, and the token of *)
(* row i.                                                                   *)
(***************************************************************************)
Codes == [otp |-> 1, wrong |-> 0]
tokenOf(id) == 10 + id

OtpRow(code, type, used) ==
    [code |-> code, type |-> type, used |-> used, expired |-> FALSE, deleted |-> FALSE]

Request(kind, code) == [kind |-> kind, code |-> code, pc |-> "find", record |-> 0,
                        status |-> 0, resetToken |-> 0]

\* prisma.otpCode.findFirst({ where: { userId, code, type, used: false,
\* expiresAt: { gt: new Date() } } }): 0 for null
findValid(rows, code, type) ==
    IF \E i \in 1..Len(rows) :
           /\ rows[i].code = code /\ rows[i].type = type
           /\ ~rows[i].used /\ ~rows[i].expired /\ ~rows[i].deleted
    THEN CHOOSE i \in 1..Len(rows) :
             /\ rows[i].code = code /\ rows[i].type = type
             /\ ~rows[i].used /\ ~rows[i].expired /\ ~rows[i].deleted
    ELSE 0

typeFor(kind) == IF kind = "verify" THEN "password_reset" ELSE "reset_token"

\* the codes a client can send: those of the rows, and a guess
known == {otpCode[i].code : i \in 1..Len(otpCode)} \cup {Codes.wrong}

\* after forgot-password: the OTP is stored; or after a verify-otp: the OTP
\* is used and its reset token is stored
InitOtp ==
    /\ agentIdle /\ videoIdle /\ sumIdle /\ valIdle /\ storeIdle /\ studioIdle
    /\ raceIdle /\ retryIdle
    /\ hfConfigured = FALSE
    /\ otpCode \in {<<OtpRow(Codes.otp, "password_reset", FALSE)>>,
                    <<OtpRow(Codes.otp, "password_reset", TRUE),
                      OtpRow(tokenOf(2), "reset_token", FALSE)>>}
    /\ requests = <<>>
    /\ password = 0

\* a request arrives
Receive ==
    /\ Len(requests) < MaxRequests
    /\ \E kind \in {"verify", "reset"} : \E code \in known :
           requests' = Append(requests, Request(kind, code))
    /\ UNCHANGED <<otpCode, password>>
    /\ UNCHANGED <<agentVars, videoVars, sumVars, valVars, envVars, storeVars, studioVars,
                   raceVars, retryVars>>

\* ten, or fifteen, minutes after a row was created
Expire ==
    /\ \E i \in 1..Len(otpCode) :
           /\ ~otpCode[i].expired /\ ~otpCode[i].deleted
           /\ otpCode' = [otpCode EXCEPT ![i].expired = TRUE]
    /\ UNCHANGED <<requests, password>>
    /\ UNCHANGED <<agentVars, videoVars, sumVars, valVars, envVars, storeVars, studioVars,
                   raceVars, retryVars>>

\* verify-otp 20-35 and reset-password 28-44: the record is looked up, 400
\* when there is none
Find(r) ==
    /\ requests[r].pc = "find"
    /\ \E id \in {findValid(otpCode, requests[r].code, typeFor(requests[r].kind))} :
           requests' = [requests EXCEPT
               ![r].record = id,
               ![r].pc = IF id = 0 THEN "done" ELSE "mark",
               ![r].status = IF id = 0 THEN 400 ELSE 0]
    /\ UNCHANGED <<otpCode, password>>
    /\ UNCHANGED <<agentVars, videoVars, sumVars, valVars, envVars, storeVars, studioVars,
                   raceVars, retryVars>>

\* verify-otp 38-41 and reset-password 47-50: update({ where: { id }, data:
\* { used: true } }) throws when the row is gone, and the catch answers 500
MarkUsed(r) ==
    /\ requests[r].pc = "mark"
    /\ IF otpCode[requests[r].record].deleted
       THEN /\ requests' = [requests EXCEPT ![r].pc = "done", ![r].status = 500]
            /\ UNCHANGED otpCode
       ELSE /\ otpCode' = [otpCode EXCEPT ![requests[r].record].used = TRUE]
            /\ requests' = [requests EXCEPT
                   ![r].pc = IF requests[r].kind = "verify" THEN "create" ELSE "update"]
    /\ UNCHANGED password
    /\ UNCHANGED <<agentVars, videoVars, sumVars, valVars, envVars, storeVars, studioVars,
                   raceVars, retryVars>>

\* verify-otp 44-61: the reset token is stored and returned
CreateToken(r) ==
    /\ requests[r].pc = "create"
    /\ otpCode' = Append(otpCode, OtpRow(tokenOf(Len(otpCode) + 1), "reset_token", FALSE))
    /\ requests' = [requests EXCEPT ![r].pc = "done", ![r].status = 200,
                                    ![r].resetToken = tokenOf(Len(otpCode) + 1)]
    /\ UNCHANGED password
    /\ UNCHANGED <<agentVars, videoVars, sumVars, valVars, envVars, storeVars, studioVars,
                   raceVars, retryVars>>

\* reset-password 53-61: the new password is hashed and written
UpdatePassword(r) ==
    /\ requests[r].pc = "update"
    /\ password' = password + 1
    /\ requests' = [requests EXCEPT ![r].pc = "cleanup"]
    /\ UNCHANGED otpCode
    /\ UNCHANGED <<agentVars, videoVars, sumVars, valVars, envVars, storeVars, studioVars,
                   raceVars, retryVars>>

\* reset-password 64-68: deleteMany({ where: { userId, used: true } })
CleanUp(r) ==
    /\ requests[r].pc = "cleanup"
    /\ otpCode' = [i \in 1..Len(otpCode) |->
                       [otpCode[i] EXCEPT !.deleted = @ \/ otpCode[i].used]]
    /\ requests' = [requests EXCEPT ![r].pc = "done", ![r].status = 200]
    /\ UNCHANGED password
    /\ UNCHANGED <<agentVars, videoVars, sumVars, valVars, envVars, storeVars, studioVars,
                   raceVars, retryVars>>

NextOtp ==
    \/ Receive
    \/ Expire
    \/ \E r \in 1..Len(requests) : Find(r)
    \/ \E r \in 1..Len(requests) : MarkUsed(r)
    \/ \E r \in 1..Len(requests) : CreateToken(r)
    \/ \E r \in 1..Len(requests) : UpdatePassword(r)
    \/ \E r \in 1..Len(requests) : CleanUp(r)

SpecOtp == InitOtp /\ [][NextOtp]_vars

(***************************************************************************)
(* Properties.                                                             *)
(***************************************************************************)
NoDuplicates(list) == \A i, j \in 1..Len(list) : list[i] = list[j] => i = j

\* C1: for every utterance, the empty one and those with a question mark
\* included, the classifier's list starts with knowledge and holds no tag
\* twice (so knowledge occurs exactly once).
C1_KnowledgeFirstOnce ==
    pc = "classified" =>
        /\ Len(intents) >= 1
        /\ intents[1] = "knowledge"
        /\ NoDuplicates(intents)

C1_Witness ==
    /\ pc = "classified"
    /\ includes(message, "?")
    /\ listIncludes(intents, "youtube")
    /\ listIncludes(intents, "search")

noCueButQuestion(m) ==
    /\ ~SEARCH_PATTERNS(m) /\ ~YOUTUBE_PATTERNS(m) /\ ~SUMMARIZE_PATTERNS(m)
    /\ includes(m, "?")
    /\ ~KNOWLEDGE_PATTERNS(m)

\* C2: safety net: when no search, video or summarize cue matched, the
\* utterance holds a question mark and no possessive cue matched, the result
\* contains search.
C2_SafetyNet ==
    (pc = "classified" /\ noCueButQuestion(message)) => listIncludes(intents, "search")

C2_Witness ==
    /\ pc = "classified"
    /\ noCueButQuestion(message)
    /\ intents = <<"knowledge", "search">>

hasBoth(list, tag) == listIncludes(list, "knowledge") /\ listIncludes(list, tag)

additive(m, list) ==
    /\ YOUTUBE_PATTERNS(m) => hasBoth(list, "youtube")
    /\ SEARCH_PATTERNS(m) => hasBoth(list, "search")
    /\ SUMMARIZE_PATTERNS(m) => hasBoth(list, "summarize")

\* C3: cue matches are additive: an utterance that matches a cue of a family
\* gets knowledge and the family's tag, whichever other families match, in
\* the classifier's result and in AgentContext.expertsUsed.
C3_Additive ==
    /\ pc # "start" => additive(message, intents)
    /\ pc = "done" => additive(message, agentContext.expertsUsed)

C3_Witness ==
    /\ pc = "done"
    /\ YOUTUBE_PATTERNS(message) /\ SEARCH_PATTERNS(message) /\ SUMMARIZE_PATTERNS(message)
    /\ agentContext.expertsUsed = <<"knowledge", "youtube", "search", "summarize">>

\* C4: the search expert is started exactly when the intents contain search,
\* the video expert exactly when they contain youtube; an expert that was not
\* selected is never called and contributes nothing; the knowledge expert
\* runs for every query.
C4_DispatchBySelection ==
    pc # "start" =>
        /\ "knowledge" \in called
        /\ "search" \in called <=> listIncludes(intents, "search")
        /\ "youtube" \in called <=> listIncludes(intents, "youtube")
        /\ searchTask.status # "none" <=> listIncludes(intents, "search")
        /\ youtubeTask.status # "none" <=> listIncludes(intents, "youtube")
        /\ (pc = "done" /\ ~listIncludes(intents, "search")) =>
               agentContext.searchResults = <<>> /\ agentContext.searchContext = ""
        /\ (pc = "done" /\ ~listIncludes(intents, "youtube")) =>
               agentContext.youtubeResults = <<>> /\ agentContext.youtubeContext = ""

C4_Witness ==
    /\ pc = "done"
    /\ called = {"knowledge", "search"}
    /\ youtubeTask = NoTask
    /\ agentContext.searchResults # <<>>
    /\ agentContext.youtubeResults = <<>>

taskFailed(task) == task.status = "fulfilled" /\ fetchFailed(task.fetch)

ownContributions ==
    pc = "done" =>
        /\ taskFailed(searchTask) =>
               agentContext.searchResults = <<>> /\ agentContext.searchContext = ""
        /\ taskFailed(youtubeTask) =>
               agentContext.youtubeResults = <<>> /\ agentContext.youtubeContext = ""
        /\ searchTask.status = "fulfilled" =>
               /\ agentContext.searchResults = webSearch(searchTask.fetch, 5)
               /\ agentContext.searchContext =
                      formatSearchResultsForContext(webSearch(searchTask.fetch, 5))
        /\ youtubeTask.status = "fulfilled" =>
               /\ agentContext.youtubeResults = youtubeSearch(youtubeTask.fetch, 5)
               /\ agentContext.youtubeContext =
                      formatYouTubeResultsForContext(youtubeSearch(youtubeTask.fetch, 5))
        /\ agentContext.knowledgeContext = runKnowledgeExpert(message, documents).context

\* C5: settle-all: whatever the two experts' fetches do, runAgents goes on to
\* return a context; a failed expert contributes nothing, and what the other
\* expert and the knowledge expert contribute depends on their own input only.
C5_SettleAll == []ownContributions /\ ((pc = "awaiting") ~> (pc = "done"))

C5_Witness ==
    /\ pc = "done"
    /\ taskFailed(searchTask)
    /\ youtubeTask.status = "fulfilled"
    /\ Len(agentContext.youtubeResults) = 5
    /\ agentContext.searchResults = <<>>
    /\ agentContext.knowledgeContext # ""

isPlaylist(a) == a = PlaylistAnchor
isWatchable(a) == a \in {WatchAnchor, ShortAnchor}

\* C6: every video result returned has a non-empty identifier, the one
\* extracted from its URL, and a URL of the video host; results without an
\* identifier are dropped; at most maxResults (5) are returned.
C6_VideoResults ==
    videoPc = "returned" =>
        /\ Len(videoResults) <= 5
        /\ \A i \in 1..Len(videoResults) :
               /\ videoResults[i].videoId # ""
               /\ isVideoUrl(videoResults[i])
               /\ extractYouTubeId(videoResults[i].url) = Returns(videoResults[i].videoId)

C6_Witness ==
    /\ videoPc = "returned"
    /\ videoFetch.kind = "page"
    /\ Len(SelectSeq(videoFetch.html, isWatchable)) = 6
    /\ Len(SelectSeq(videoFetch.html, isPlaylist)) = 1
    /\ Len(videoResults) = 5

summary1 == fulfilledOr(nvidiaSummary)
summary2 == fulfilledOr(hfSummaryResult)

\* C7: when at most one of the two summaries is non-empty, no merge call is
\* issued and the non-empty summary is returned verbatim, "" when both are
\* empty.
C7_OneSummaryVerbatim ==
    (sumPc \in {"merging", "done"} /\ (summary1 = "" \/ summary2 = "")) =>
        /\ sumPc = "done"
        /\ mergeCalls = 0
        /\ sumOutput = (IF summary1 # "" THEN summary1 ELSE summary2)

C7_Witness ==
    /\ sumPc = "done"
    /\ nvidiaSummary.status = "rejected"
    /\ summary2 # ""
    /\ sumOutput = summary2
    /\ mergeCalls = 0

\* C8: when both summaries are there, exactly one merge call is issued and
\* its result returned, the primary summary when it fails; so the output is
\* non-empty whenever one of the two summaries is.
C8_MergeNeverLosesSummary ==
    sumPc = "done" =>
        /\ (summary1 # "" /\ summary2 # "") => mergeCalls = 1
        /\ (summary1 # "" \/ summary2 # "") => sumOutput # ""

bestEffort ==
    valPc = "done" =>
        /\ startsWith(valOutput, valResponse)
        /\ valOutput = valResponse \/ valOutput = valResponse \o Notice
        /\ (~hfConfigured \/ valThrew) => valOutput = valResponse

\* C9: validateResponse always returns, and it returns the answer unchanged
\* or the answer followed by the notice; unchanged when the validator is not
\* configured or hfChat throws.
C9_BestEffort == []bestEffort /\ <>(valPc = "done")

C9_Witness ==
    /\ valPc = "done"
    /\ valThrew
    /\ lastError = "Empty HF response"
    /\ valResponse # ""
    /\ valOutput = valResponse

\* the reply enumerates unsupported claims in the form the prompt asks for
issuesForm(reply) == startsWith(reply, "ISSUES:")

\* C10: a reply in the ISSUES: form gets the notice appended to the answer;
\* a reply that affirms support or has neither form leaves it unchanged.
C10_Decision ==
    (valPc = "done" /\ validation # "") =>
        /\ issuesForm(validation) => valOutput = valResponse \o Notice
        /\ ~issuesForm(validation) => valOutput = valResponse

(***************************************************************************)
(* The studio page: fetchGraphData (app/(dashboard)/studio/page.tsx).      *)
(* Node ids are numbers; strengths are counted in tenths; val and color,   *)
(* which the page derives per node for drawing, are left out.              *)
(***************************************************************************)
MAX_TOTAL_NODES == 80
MAX_LINKS_PER_NODE == 6

GraphNode(id, type, strength) == [id |-> id, type |-> type, strength |-> strength]

\* bridge is the _bridge of the page, FALSE where a link has none
GraphLink(source, target, strength) ==
    [source |-> source, target |-> target, strength |-> strength, bridge |-> FALSE]

\* Array.prototype.sort((a, b) => key(b) - key(a)): stable, keys descending.
\* ranks[i] is the place of element i
ranks(keys) ==
    [i \in 1..Len(keys) |->
        1 + Cardinality({j \in 1..Len(keys) :
                            keys[j] > keys[i] \/ (keys[j] = keys[i] /\ j < i)})]

arranged(list, places) ==
    [p \in 1..Len(list) |-> list[CHOOSE i \in 1..Len(list) : places[i] = p]]

sortDesc(list, keys) ==
    CHOOSE sorted \in UNION {{arranged(l, places) : places \in {ranks(k)}} :
                                 l \in {list}, k \in {keys}} : TRUE

Max(a, b) == IF a > b THEN a ELSE b

\* n.strength || 1
strengthOr1(n) == IF n.strength = 0 THEN 10 ELSE n.strength

\* page.tsx 142-147: nodes = [...importantNodes, ...entityNodes]
importantNodes(allNodes) == SelectSeq(allNodes, LAMBDA n : n.type # "entity")

entityNodes(allNodes) ==
    CHOOSE kept \in
        {slice0(sortDesc(entities, [i \in 1..Len(entities) |-> strengthOr1(entities[i])]),
                Max(MAX_TOTAL_NODES - Len(importantNodes(allNodes)), 20)) :
            entities \in {SelectSeq(allNodes, LAMBDA n : n.type = "entity")}} : TRUE

selectNodes(allNodes) == importantNodes(allNodes) \o entityNodes(allNodes)

nodeIdsOf(nodes) == {nodes[i].id : i \in 1..Len(nodes)}

\* page.tsx 155-157: link.strength || 0 is the strength
sortedLinks(allLinks) ==
    CHOOSE sorted \in
        {sortDesc(links, [i \in 1..Len(links) |-> links[i].strength]) :
            links \in {allLinks}} : TRUE

\* page.tsx 162-167: the tests of the filter callback
admitted_SelfLoops(link, nodeIds, linkCountPerNode) ==
    /\ link.source \in nodeIds /\ link.target \in nodeIds
    /\ ~(/\ linkCountPerNode[link.source] >= MAX_LINKS_PER_NODE
          /\ linkCountPerNode[link.target] >= MAX_LINKS_PER_NODE)
admitted(link, nodeIds, linkCountPerNode) ==
    /\ link.source \in nodeIds /\ link.target \in nodeIds
    /\ link.source # link.target
    /\ ~(/\ linkCountPerNode[link.source] >= MAX_LINKS_PER_NODE
          /\ linkCountPerNode[link.target] >= MAX_LINKS_PER_NODE)

\* page.tsx 168-169
counted(linkCountPerNode, link) ==
    [linkCountPerNode EXCEPT ![link.source] = @ + 1, ![link.target] = @ + 1]

\* page.tsx 159-171, the links from position k on
RECURSIVE filterLinks(_, _, _, _)
filterLinks(links, nodeIds, linkCountPerNode, k) ==
    IF k > Len(links) THEN <<>>
    ELSE IF admitted(links[k], nodeIds, linkCountPerNode)
    THEN <<links[k]>> \o
         (CHOOSE rest \in {filterLinks(links, nodeIds, counts, k + 1) :
                              counts \in {counted(linkCountPerNode, links[k])}} : TRUE)
    ELSE filterLinks(links, nodeIds, linkCountPerNode, k + 1)

filteredLinksOf(allLinks, nodeIds) ==
    CHOOSE kept \in {filterLinks(links, nodeIds, [id \in nodeIds |-> 0], 1) :
                        links \in {sortedLinks(allLinks)}} : TRUE

\* page.tsx 175-182: adjacency.get(id), a Set in insertion order
otherEnd(link, id) == IF link.source = id THEN link.target ELSE link.source

adjacency(links, id) ==
    CHOOSE neighbors \in
        {Dedup([i \in 1..Len(touching) |-> otherEnd(touching[i], id)]) :
            touching \in {SelectSeq(links, LAMBDA l : l.source = id \/ l.target = id)}} :
        TRUE

\* page.tsx 190-201: the while loop over the queue
RECURSIVE bfs(_, _, _, _)
bfs(queue, visited, cluster, links) ==
    IF queue = <<>> THEN cluster
    ELSE IF Head(queue) \in visited THEN bfs(Tail(queue), visited, cluster, links)
    ELSE CHOOSE found \in
             {bfs(q, v, c, links) :
                 q \in {Tail(queue) \o SelectSeq(adjacency(links, Head(queue)),
                                                LAMBDA m : m \notin visited \cup {Head(queue)})},
                 v \in {visited \cup {Head(queue)}},
                 c \in {Append(cluster, Head(queue))}} : TRUE

\* page.tsx 184-203.  The search from a node finds its connected component,
\* so visited.has(node.id) holds at node i exactly when a node before i is in
\* the component of i; found[i] is the search from node i
startsCluster(nodes, found, i) ==
    \A j \in 1..(i - 1) : ~listIncludes(found[i], nodes[j].id)

discovered(nodes, found) ==
    CHOOSE clusters \in
        {[k \in 1..Len(starts) |-> found[starts[k]]] :
            starts \in {SelectSeq([i \in 1..Len(nodes) |-> i],
                                  LAMBDA i : startsCluster(nodes, found, i))}} : TRUE

clustersOf(nodes, links) ==
    CHOOSE clusters \in
        {discovered(nodes, found) :
            found \in {[i \in 1..Len(nodes) |-> bfs(<<nodes[i].id>>, {}, <<>>, links)]}} :
        TRUE

\* page.tsx 206-222: clusters.sort by length, the largest first; one bridge
\* from the first node of each other cluster to the first node of the largest
bridgesFrom(sorted) ==
    [i \in 1..(Len(sorted) - 1) |->
        [source |-> sorted[i + 1][1], target |-> sorted[1][1], strength |-> 1,
         bridge |-> TRUE]]

bridgeLinks_Unsorted(clusters) ==
    IF Len(clusters) > 1 THEN bridgesFrom(clusters) ELSE <<>>
bridgeLinks(clusters) ==
    IF Len(clusters) > 1
    THEN CHOOSE bridges \in
             {bridgesFrom(sorted) :
                 sorted \in {sortDesc(clusters,
                                      [i \in 1..Len(clusters) |-> Len(clusters[i])])}} : TRUE
    ELSE <<>>

\* page.tsx 147-224: what setGraphData is called with
visualGraph(nodes, filteredLinks) ==
    [nodes |-> nodes,
     links |-> filteredLinks \o bridgeLinks(clustersOf(nodes, filteredLinks))]

(***************************************************************************)
(* Responses of /api/brain/graph that the page is run on.                  *)
(***************************************************************************)
\* the response lists up to MaxOver nodes more than MAX_TOTAL_NODES
MaxOver == 5

\* entity nodes first (ids from 101), the other nodes after them (ids from 1)
Layout(important, entity) ==
    [k \in 1..entity |-> GraphNode(100 + k, "entity", (k * 7) % 23)]
        \o [k \in 1..important |->
                GraphNode(k, IF k % 2 = 0 THEN "concept" ELSE "document", 20)]

Layouts ==
    {Layout(0, 0), Layout(1, 0), Layout(0, 1), Layout(5, 2), Layout(2, 5),
     Layout(14, 3), Layout(MAX_TOTAL_NODES - 20, 21), Layout(MAX_TOTAL_NODES - 19, 19),
     Layout(MAX_TOTAL_NODES - 19, 20), Layout(MAX_TOTAL_NODES - 19, 20 + MaxOver),
     Layout(MAX_TOTAL_NODES - 1, 5), Layout(MAX_TOTAL_NODES, 0),
     Layout(MAX_TOTAL_NODES, 1), Layout(MAX_TOTAL_NODES + 1, 0),
     Layout(MAX_TOTAL_NODES + MaxOver, 20 + MaxOver),
     Layout(0, MAX_TOTAL_NODES + MaxOver), Layout(3, MAX_TOTAL_NODES + MaxOver)}

Chains ==
    <<GraphLink(1, 2, 5), GraphLink(2, 3, 5), GraphLink(3, 4, 5), GraphLink(4, 5, 5),
      GraphLink(101, 102, 9)>>

\* links to nodes that are not in the response, from a node to itself, twice
\* between the same nodes
Stale ==
    <<GraphLink(1, 999, 9), GraphLink(2, 2, 8), GraphLink(999, 998, 7),
      GraphLink(2, 1, 0), GraphLink(1, 2, 3), GraphLink(101, 101, 3)>>

EntityFan == [k \in 1..(20 + MaxOver) |-> GraphLink(1, 100 + k, k)]

DoubleStar ==
    [k \in 1..MAX_LINKS_PER_NODE |-> GraphLink(1, 2 + k, 9)]
        \o [k \in 1..MAX_LINKS_PER_NODE |-> GraphLink(2, 2 + MAX_LINKS_PER_NODE + k, 9)]
        \o <<GraphLink(1, 2, 1)>>

LinkLists ==
    {<<>>, Chains, Stale, Chains \o Stale, EntityFan, EntityFan \o Chains,
     EntityFan \o Stale, DoubleStar, DoubleStar \o Stale}

Responses == {[nodes |-> nodes, links |-> links] : nodes \in Layouts, links \in LinkLists}

InitStudio ==
    /\ otherIdle
    /\ agentIdle /\ videoIdle /\ sumIdle /\ valIdle /\ storeIdle
    /\ hfConfigured = FALSE
    /\ studioPc = "fetch"
    /\ selectedNode = 0
    /\ data \in Responses
    /\ graphData = [nodes |-> <<>>, links |-> <<>>]

\* page.tsx 131-224: the response arrives and the graph is set
SetGraphData ==
    /\ studioPc = "fetch"
    /\ \E nodes \in {selectNodes(data.nodes)} :
           \E filteredLinks \in {filteredLinksOf(data.links, nodeIdsOf(nodes))} :
               graphData' = visualGraph(nodes, filteredLinks)
    /\ studioPc' = "set"
    /\ UNCHANGED <<data, selectedNode, agentVars, videoVars, sumVars, valVars, envVars, otherVars, storeVars>>

\* page.tsx 225-227: fetch or res.json() throws, the graph stays as it was
FetchFails ==
    /\ studioPc = "fetch"
    /\ studioPc' = "failed"
    /\ UNCHANGED <<data, graphData, selectedNode, agentVars, videoVars, sumVars, valVars,
                   envVars, otherVars, storeVars>>

\* page.tsx 233-245: the nodes listed as connected to the selected node
connectedIds(links, selected) ==
    {links[i].target : i \in {j \in 1..Len(links) : links[j].source = selected}}
        \cup {links[i].source : i \in {j \in 1..Len(links) : links[j].target = selected}}

connectedNodes(graph, selected) ==
    IF selected = 0 \/ graph.links = <<>> THEN <<>>
    ELSE CHOOSE listed \in
             {SelectSeq(graph.nodes, LAMBDA n : n.id \in ids) :
                 ids \in {connectedIds(graph.links, selected)}} : TRUE

\* page.tsx 439-458, in tenths, with no search query typed
linkWidth(link, selected) ==
    IF link.bridge THEN 0
    ELSE IF selected = 0 THEN 6
    ELSE IF link.source = selected \/ link.target = selected
    THEN Max((IF link.strength = 0 THEN 10 ELSE link.strength) * 2, 20)
    ELSE 2

\* a node of the graph is clicked: setSelectedNode(node)
SelectNode ==
    /\ studioPc = "set"
    /\ selectedNode' \in nodeIdsOf(graphData.nodes)
    /\ studioPc' = "selected"
    /\ UNCHANGED <<data, graphData, agentVars, videoVars, sumVars, valVars, envVars, otherVars,
                   storeVars>>

NextStudio == SetGraphData \/ FetchFails \/ SelectNode

SpecStudio == InitStudio /\ [][NextStudio]_vars

(***************************************************************************)
(* Properties of the knowledge graph.                                      *)
(***************************************************************************)
entitiesOf(uploads) == UNION {{u.entities[i] : i \in 1..Len(u.entities)} : u \in uploads}

Paths == {"ingest", "rebuild"}

uniqueLabels(rows) ==
    \A i, j \in 1..Len(rows) : rows[i].label = rows[j].label => i = j

\* what one more call for entity leaves of rows, the row i being the one found
upsertedOnce(rows, after, i, entity, path) ==
    /\ uniqueLabels(after)
    /\ i = 0 =>
           /\ Len(after) = Len(rows) + 1
           /\ after[Len(after)].label = entity.name
           /\ after[Len(after)].strength = 10
           /\ after[Len(after)].connections = <<>>
    /\ i # 0 =>
           /\ Len(after) = Len(rows)
           /\ after[i].strength = IF path = "rebuild" THEN Min(rows[i].strength + 3, 100)
                                   ELSE rows[i].strength + 5

C12_StrengthCapped ==
    \A i \in 1..Len(knowledgeNode) : knowledgeNode[i].strength <= 100

\* the documents the last handler went through, each with the writes that
\* threw during its batch
lastProcessed ==
    IF lastBatch.kind = "none" THEN {}
    ELSE IF lastBatch.kind = "rebuild"
    THEN {[doc |-> document[i],
           fails |-> IF lastBatch.fails.at = i THEN lastBatch.fails ELSE NoFailure] :
              i \in {j \in 1..Len(document) :
                         /\ document[j].entities # <<>>
                         /\ ~(lastBatch.fails.at = j /\ lastBatch.fails.ai
                                /\ ~lastBatch.documents[j].stored)}}
    ELSE IF lastBatch.fails.ai THEN {}
    ELSE {[doc |-> Upload(lastBatch.title, lastBatch.entities), fails |-> lastBatch.fails]}

\* the labels of a batch: the entities whose upsert did not throw
batchLabels(p) ==
    {p.doc.entities[i].name : i \in 1..Len(p.doc.entities)} \ p.fails.upsert

lists(rows, a, b) == listIncludes(rows[a].connections, b)

linkFailureFree(fails) == ~fails.doc /\ fails.link = {}

symmetric(rows) ==
    \A a, b \in 1..Len(rows) : lists(rows, a, b) <=> lists(rows, b, a)

\* the nodes of the batch list each other, and the document node and the
\* nodes of the batch list each other
batchLinked(rows, p) ==
    LET d == findFirst(rows, p.doc.title)
    IN  /\ batchLabels(p) # {} => d # 0
        /\ \A a \in batchLabels(p) :
               /\ findFirst(rows, a) # 0
               /\ lists(rows, findFirst(rows, a), d)
               /\ lists(rows, d, findFirst(rows, a))
               /\ \A b \in batchLabels(p) \ {a} :
                      lists(rows, findFirst(rows, a), findFirst(rows, b))

\* C13: after a handler whose connection writes all succeeded, the entity
\* nodes of each batch list each other, each lists the document node and the
\* document node lists each; and if A listed B exactly when B listed A before
\* the handler, so it is after it.
C13_LinkSymmetric ==
    linkFailureFree(lastBatch.fails) =>
        /\ \A p \in lastProcessed : batchLinked(knowledgeNode, p)
        /\ symmetric(lastBatch.before) => symmetric(knowledgeNode)

C13_Witness ==
    /\ lastBatch.kind = "rebuild"
    /\ linkFailureFree(lastBatch.fails)
    /\ lastBatch.before # knowledgeNode
    /\ symmetric(lastBatch.before)
    /\ \E p \in lastProcessed : p.doc.title = "Paris" /\ Cardinality(batchLabels(p)) = 2
    /\ \E a, b \in 1..Len(knowledgeNode) : a # b /\ lists(knowledgeNode, a, b)

distinctNames(entities) ==
    \A i, j \in 1..Len(entities) : entities[i].name = entities[j].name => i = j

intoEmptyGraph ==
    /\ lastBatch.kind = "ingest"
    /\ lastBatch.before = <<>>
    /\ lastBatch.fails = NoFailure
    /\ lastBatch.entities # <<>>
    /\ distinctNames(lastBatch.entities)
    /\ \A i \in 1..Len(lastBatch.entities) : lastBatch.entities[i].name # lastBatch.title

\* C14: a document with k >= 1 distinct entities and a title that is none of
\* their labels, ingested into an empty graph, leaves k + 1 nodes: one per
\* entity with its extracted type, one of type document, and every two of
\* them list each other.
C14_IngestScenario ==
    intoEmptyGraph =>
        /\ Len(knowledgeNode) = Len(lastBatch.entities) + 1
        /\ \A i \in 1..Len(lastBatch.entities) :
               \E n \in 1..Len(knowledgeNode) :
                   /\ knowledgeNode[n].label = lastBatch.entities[i].name
                   /\ knowledgeNode[n].type = lastBatch.entities[i].type
        /\ \E n \in 1..Len(knowledgeNode) :
               /\ knowledgeNode[n].label = lastBatch.title
               /\ knowledgeNode[n].type = "document"
        /\ \A a, b \in 1..Len(knowledgeNode) : a # b => lists(knowledgeNode, a, b)

C14_Witness ==
    /\ intoEmptyGraph
    /\ lastBatch.title = "Atlas"
    /\ Len(knowledgeNode) = 4
    /\ knowledgeNode[4].type = "document"
    /\ knowledgeNode[1].connections = <<2, 3, 4>>

\* C18: a connection write that throws, for an entity node or for the
\* document node, is skipped: every other entity node of the batch still
\* lists the other nodes of the batch, and the rebuild still links the
\* batches of the other documents.
C18_FaultIsolation ==
    \A p \in lastProcessed :
        \A a \in batchLabels(p) \ p.fails.link :
            \A b \in batchLabels(p) \ {a} :
                /\ findFirst(knowledgeNode, a) # 0
                /\ findFirst(knowledgeNode, b) # 0
                /\ lists(knowledgeNode, findFirst(knowledgeNode, a),
                         findFirst(knowledgeNode, b))

\* C19: no node lists itself, and the node a batch used as its document node
\* has type document.
C19_NoSelfLoops ==
    /\ \A n \in 1..Len(knowledgeNode) : ~lists(knowledgeNode, n, n)
    /\ \A p \in lastProcessed :
           (batchLabels(p) # {} /\ ~p.fails.doc) =>
               \A n \in {findFirst(knowledgeNode, p.doc.title)} \ {0} :
                   knowledgeNode[n].type = "document"

\* C20: no ingestion, re-processing or rebuild lowers the strength of a node
\* that was in the graph before it.
C20_StrengthMonotone ==
    \A i \in 1..Len(lastBatch.before) :
        knowledgeNode[i].strength >= lastBatch.before[i].strength

(***************************************************************************)
(* Properties of the studio page.                                          *)
(***************************************************************************)
\* C15: the graph that is set has at most MAX_TOTAL_NODES nodes.
C15_NodeCap == studioPc = "set" => Len(graphData.nodes) <= MAX_TOTAL_NODES

isBridge(link) == link.bridge

nonBridge(links) == SelectSeq(links, LAMBDA l : ~l.bridge)

bridgesOf(links) == SelectSeq(links, isBridge)

\* the ids joined to the ids of set by a link
withNeighbours(set, links) ==
    set \cup {links[i].target : i \in {j \in 1..Len(links) : links[j].source \in set}}
        \cup {links[i].source : i \in {j \in 1..Len(links) : links[j].target \in set}}

RECURSIVE component(_, _)
component(set, links) ==
    CHOOSE c \in {IF next = set THEN set ELSE component(next, links) :
                     next \in {withNeighbours(set, links)}} : TRUE

componentsOf(ids, links) == {component({id}, links) : id \in ids}

bridged(ids, components, bridges, links) ==
    /\ ids # {} => Len(bridges) = Cardinality(components) - 1
    /\ \A i \in 1..Len(bridges) :
           /\ bridges[i].target = bridges[1].target
           /\ \A c \in components :
                  bridges[1].target \in c => \A other \in components :
                                                 Cardinality(other) <= Cardinality(c)
    /\ bridges # <<>> =>
           \A c \in components :
               Cardinality({i \in 1..Len(bridges) : bridges[i].source \in c})
                   = IF bridges[1].target \in c THEN 0 ELSE 1
    /\ Cardinality(componentsOf(ids, links)) <= 1

\* C16: with N >= 1 components of the nodes under the admitted links, the
\* graph has N - 1 bridges, one from a node of each component but a largest
\* one, all to one node of that largest component; with the bridges all the
\* nodes are connected.
C16_Bridges ==
    studioPc = "set" =>
        \A ids \in {nodeIdsOf(graphData.nodes)} :
            \A components \in {componentsOf(ids, nonBridge(graphData.links))} :
                bridged(ids, components, bridgesOf(graphData.links), graphData.links)

C16_Witness ==
    /\ studioPc = "set"
    /\ data.nodes = Layout(5, 2)
    /\ data.links = Chains
    /\ Len(graphData.nodes) = 7
    /\ bridgesOf(graphData.links) =
           <<[source |-> 102, target |-> 1, strength |-> 1, bridge |-> TRUE]>>
    /\ componentsOf(nodeIdsOf(graphData.nodes), nonBridge(graphData.links)) =
           {{1, 2, 3, 4, 5}, {101, 102}}

\* C17: every link of the graph that is set, admitted or bridge, joins two
\* different nodes of that graph.
C17_LinksInside ==
    studioPc = "set" =>
        \A ids \in {nodeIdsOf(graphData.nodes)} :
            \A i \in 1..Len(graphData.links) :
                /\ graphData.links[i].source \in ids
                /\ graphData.links[i].target \in ids
                /\ graphData.links[i].source # graphData.links[i].target

C17_Witness ==
    /\ studioPc = "set"
    /\ \E i \in 1..Len(data.links) :
           /\ data.links[i].target \in nodeIdsOf(data.nodes)
           /\ data.links[i].target \notin nodeIdsOf(graphData.nodes)
    /\ \E i \in 1..Len(data.links) : data.links[i].target \notin nodeIdsOf(data.nodes)
    /\ \E i \in 1..Len(data.links) : data.links[i].source = data.links[i].target
    /\ nonBridge(graphData.links) # <<>>
    /\ bridgesOf(graphData.links) # <<>>

(***************************************************************************)
(* Further properties of the classifier and of runAgents.                  *)
(***************************************************************************)
\* the first two of SEARCH_PATTERNS: the keywords, without /\?([\s]*$)/
searchKeywordCue(m) ==
    \E lower \in {toLowerCase(m)} :
        \E p \in {"search", "find", "look up", "google", "what is", "who is",
                   "latest", "current", "news", "when did", "where is", "how to",
                   "tell me about", "explain", "define", "meaning of", "definition"} :
            MatchesWord(lower, p)

possessiveOnly(m) ==
    /\ KNOWLEDGE_PATTERNS(m)
    /\ ~searchKeywordCue(m) /\ ~YOUTUBE_PATTERNS(m) /\ ~SUMMARIZE_PATTERNS(m)

\* C29: an utterance with a possessive cue and no search keyword, video or
\* summarize cue is classified as knowledge alone, with or without a
\* question mark in it or at its end.
C29_PossessiveSuppresses ==
    (pc = "classified" /\ possessiveOnly(message)) => intents = <<"knowledge">>

\* C27: when runAgents has returned, a tag is in expertsUsed exactly when
\* the expert of that tag was called for the query.
C27_ExpertsUsedRan ==
    pc = "done" =>
        \A tag \in {"knowledge", "search", "youtube", "summarize", "general"} :
            listIncludes(agentContext.expertsUsed, tag) <=> tag \in called

(***************************************************************************)
(* Further properties of the studio page.                                  *)
(***************************************************************************)
\* the links of links that have id as an endpoint
linksAt(links, id) ==
    {i \in 1..Len(links) : links[i].source = id \/ links[i].target = id}

\* C24: in the graph that is set no node is an endpoint of more than
\* MAX_LINKS_PER_NODE links that are not bridges.
C24_LinkCap ==
    studioPc = "set" =>
        \A admittedLinks \in {nonBridge(graphData.links)} :
            \A id \in nodeIdsOf(graphData.nodes) :
                Cardinality(linksAt(admittedLinks, id)) <= MAX_LINKS_PER_NODE

joinedBy(links, a, b) ==
    \E i \in 1..Len(links) :
        \/ links[i].source = a /\ links[i].target = b
        \/ links[i].source = b /\ links[i].target = a

\* C25: every node listed as connected to the selected node is joined to it
\* by a link that is not a bridge, and every bridge has width 0.
C25_BridgesHidden ==
    studioPc = "selected" =>
        /\ \A listed \in {connectedNodes(graphData, selectedNode)} :
               \A admittedLinks \in {nonBridge(graphData.links)} :
                   \A i \in 1..Len(listed) :
                       joinedBy(admittedLinks, listed[i].id, selectedNode)
        /\ \A i \in 1..Len(graphData.links) :
               graphData.links[i].bridge => linkWidth(graphData.links[i], selectedNode) = 0

\* what an upsert of entity leaves of the type stored in row i
typeAfter(rows, i, entity, path) == upsertEntityNode(rows, entity, path)[i].type

promoted(stored, entity, after) ==
    /\ (stored = "entity" /\ entity.type # "entity") => after = entity.type
    /\ stored # "entity" => after = stored

\* C23: an upsert, by ingestion or by rebuild, of a node stored with type
\* entity with a more specific type stores that type, and an upsert never
\* changes a stored type other than entity.
C23_TypePromotion ==
    \A entity \in entitiesOf(Uploads) : \A path \in Paths :
        \A i \in {findFirst(knowledgeNode, entity.name)} \ {0} :
            promoted(knowledgeNode[i].type, entity,
                     typeAfter(knowledgeNode, i, entity, path))

connectionSet(row) == {row.connections[k] : k \in 1..Len(row.connections)}

\* no row more, and every row connected to the same rows
sameStructure(rows, after) ==
    /\ Len(after) = Len(rows)
    /\ \A i \in 1..Len(rows) :
           /\ after[i].label = rows[i].label
           /\ connectionSet(after[i]) = connectionSet(rows[i])

\* a rebuild that changes nothing but strengths and reports no creation
rebuiltSame(rows, rebuilt) ==
    /\ sameStructure(rows, rebuilt.rows)
    /\ Len(rebuilt.rows) - Len(rows) = 0
    /\ rebuilt.connectionsCreated = 0

allDone == running # <<>> /\ \A h \in Handlers : running[h].pc = "done"

\* C21: when two batches that ran at once have both finished, no two nodes
\* of the user carry the same label.
C21_LabelUnique == allDone => uniqueLabels(knowledgeNode)

\* what handler h added to node n: the other nodes of its batch and its
\* document node
addedBy(h, n) ==
    ({running[h].nodes[k] : k \in 1..Len(running[h].nodes)} \ {n})
        \cup {running[h].docId}

\* C22: when two batches that ran at once have both finished, every node of
\* a batch lists every id that batch added to it, and the connections are
\* symmetric.
C22_NoLostUpdate ==
    allDone =>
        /\ \A h \in Handlers : \A k \in 1..Len(running[h].nodes) :
               addedBy(h, running[h].nodes[k])
                   \subseteq connectionSet(knowledgeNode[running[h].nodes[k]])
        /\ symmetric(knowledgeNode)

\* the last fetch failed: the model was still loading, or fetch threw
lastFailed == fetched.kind = "error" \/ fetched.status = 503

\* a wait for a loading model lasts what the server suggested, 30 s at most
suggestedWaits ==
    \A i \in 1..Len(waits) :
        waits[i].cause = "loading" =>
            /\ waits[i].ms <= 30000
            /\ waits[i].estimated_time # 0 =>
                   waits[i].ms = IF waits[i].estimated_time < 30
                                 THEN waits[i].estimated_time * 1000 ELSE 30000

\* C26: a request through hfFetchWithRetry makes at most retries + 1 calls
\* of fetch, one wait between two calls, and hfSummarize ends; a wait for a
\* loading model is the suggested delay capped at 30 s; when the last
\* attempt fails (503 or exception) hfSummarize returns '' and throws nothing.
C26_BoundedRetry ==
    /\ [](fetches <= retries + 1 /\ Len(waits) = attempt /\ attempt <= fetches)
    /\ <>(retryPc = "done")
    /\ []suggestedWaits
    /\ []((retryPc = "done" /\ lastFailed) => hfSummary = [threw |-> FALSE, value |-> ""])

\* every attempt of a call with retries = 2 found the model loading, the
\* server once suggesting 45 s
C26_Witness ==
    /\ retryPc = "done"
    /\ retries = 2
    /\ fetches = 3
    /\ fetched.status = 503
    /\ \E i \in 1..Len(waits) : waits[i].estimated_time = 45 /\ waits[i].ms = 30000
    /\ hfSummary.value = ""

\* the requests that went on with record id: verify-otp marks it and
\* returns a token, reset-password marks it and writes the password
acceptedBy(kind, id) ==
    {r \in 1..Len(requests) :
         /\ requests[r].kind = kind /\ requests[r].record = id
         /\ requests[r].pc \in {"create", "update", "cleanup"}
                \/ (requests[r].pc = "done" /\ requests[r].status = 200)}

\* C30: whatever the interleaving, an OTP is accepted by at most one
\* verify-otp request, a reset token by at most one reset-password request,
\* and the password is written only by requests that found an unused,
\* unexpired reset token of the user.
C30_SingleUse ==
    /\ \A id \in 1..Len(otpCode) :
           /\ Cardinality(acceptedBy("verify", id)) <= 1
           /\ Cardinality(acceptedBy("reset", id)) <= 1
    /\ password <= Cardinality(UNION {acceptedBy("reset", id) : id \in 1..Len(otpCode)})

====
